---- MODULE Spec2Model ----
(***************************************************************************)
(* Model of the commit-history pipeline of git_analysis.py (and its twin   *)
(* git_analysis_file.py): extract_git_history merges the commits parsed    *)
(* from `git log` into the persisted snapshot git_history.json, and the    *)
(* four analyze_* functions read that snapshot and each write one report   *)
(* file beside it.  Two more scripts are modelled further down:            *)
(* process_repositories.py, which keeps progress_log.json while it         *)
(* extracts a list of repositories, and extract_directory_structure.py,    *)
(* which appends one entry per cloned repository to its output file.       *)
(*                                                                         *)
(* Files are records [exists, data].  A JSON object (a Python dict) is a   *)
(* function whose DOMAIN is its key set.  A date string is a record        *)
(* [parseable, day, hour, off]: local day number (day 0 is a Monday),      *)
(* local hour and UTC offset in hours; parseable = FALSE stands for a      *)
(* string such as "not-a-date".  A message is a sequence of characters.    *)
(***************************************************************************)
EXTENDS Integers, Sequences, FiniteSets, TLC

VARIABLES git_history,        \* git_analysis/git_history.json (the snapshot)
          git_history_log,    \* git_analysis/git_history.log (raw `git log` output)
          commit_frequency,   \* git_analysis/commit_frequency.json
          code_churn,         \* git_analysis/code_churn.json
          bug_prone_files,    \* git_analysis/bug_prone_files.json
          top_contributors,   \* git_analysis/top_contributors.json
          outcome,            \* how the last call of each function ended
          stdout,             \* the lines the last call printed
          run,                \* the local variables of overlapping extraction runs
          written,            \* the runs that saved the snapshot, in that order
          progress_log,       \* progress_log.json of process_repositories.py
          repositories,       \* process_repositories: the lines of repositories_text
          repo_index,         \* process_repositories: position of the loop
          repo_phase,         \* process_repositories: "begin" or "extracting"
          caught,             \* process_repositories: what the last try block raised
          output_json,        \* repositories_structure_output.json
          csv,                \* extract_directory_structure: the rows of the CSV file
          scan,               \* extract_directory_structure: locals of process_repositories
          filtered_json,      \* queryDirectoryStructure: filtered_repositories.json
          search,             \* queryDirectoryStructure: locals of search_json
          fetch,              \* searchgit: locals of fetch_github_repositories
          commit_history_json, \* extract_commit_history: the file at output_path
          writer,             \* extract_commit_history: locals of extract_commit_history
          testing             \* check_automated_testing: a call of analyze_commits

vars == <<git_history, git_history_log, commit_frequency, code_churn,
          bug_prone_files, top_contributors, outcome, stdout, run, written,
          progress_log, repositories, repo_index, repo_phase, caught,
          output_json, csv, scan, filtered_json, search, fetch,
          commit_history_json, writer, testing>>

reports == <<commit_frequency, code_churn, bug_prone_files, top_contributors>>

\* the state of process_repositories.py
progressVars == <<progress_log, repositories, repo_index, repo_phase, caught>>

\* the state of extract_directory_structure.py
structureVars == <<output_json, csv, scan>>

\* the state of queryDirectoryStructure.py
searchVars == <<filtered_json, search>>

\* the state of extract_commit_history.py
historyVars == <<commit_history_json, writer>>

\* the state of queryDirectoryStructure.py, searchgit.py,
\* extract_commit_history.py and check_automated_testing.py
restVars == <<searchVars, fetch, historyVars, testing>>

\* the state of the scripts other than git_analysis.py
otherScripts == <<progressVars, structureVars, restVars>>

\* the state a call of one of the five functions of git_analysis.py leaves alone
elsewhere == <<run, written, otherScripts>>

\* the state of git_analysis.py
gitVars == <<git_history, git_history_log, reports, outcome, stdout, run, written>>

(***************************************************************************)
(* Bounds of the model.                                                    *)
(***************************************************************************)
MaxCommits == 2     \* longest snapshot the analyses start from
MaxLog == 2         \* most entries of one `git log` output
MaxSnapshot == 3    \* extraction runs stop once the snapshot is this long

(***************************************************************************)
(* Files and dicts.                                                        *)
(***************************************************************************)
EmptyDict == <<>>

NoFile == [exists |-> FALSE, data |-> <<>>]

File(d) == [exists |-> TRUE, data |-> d]

Ops == {"extract_git_history", "analyze_commit_history", "analyze_code_churn",
        "analyze_bug_prone_files", "analyze_top_contributors"}

(***************************************************************************)
(* Input alphabet: characters, messages, authors, dates, file changes.     *)
(***************************************************************************)
UpperToLower == [c \in {"F", "I", "X", "H", "O", "T", "A", "N"} |->
                   CASE c = "F" -> "f" [] c = "I" -> "i" [] c = "X" -> "x"
                     [] c = "H" -> "h" [] c = "O" -> "o" [] c = "T" -> "t"
                     [] c = "A" -> "a" [] c = "N" -> "n"]

\* str.lower(), character by character
Lower(msg) == [i \in 1..Len(msg) |->
                 IF msg[i] \in DOMAIN UpperToLower THEN UpperToLower[msg[i]] ELSE msg[i]]

Needle == <<"f", "i", "x">>

\* `pat in s` for Python strings: pat occurs as a contiguous substring
Contains(s, pat) ==
  \E i \in 1..(Len(s) - Len(pat) + 1) : SubSeq(s, i, i + Len(pat) - 1) = pat

\* mutant of IsFixMessage: the message compared without lower()
IsFixMessageCaseSensitive(msg) == Contains(msg, Needle)

\* "fix" in commit["message"].lower()
IsFixMessage(msg) == Contains(Lower(msg), Needle)

MsgFix == <<"F", "i", "x", " ", "N", "P", "E">>      \* "Fix NPE"
MsgAdd == <<"A", "d", "d", " ", "a", "p", "i">>      \* "Add api"
MsgPrefix == <<"p", "r", "e", "f", "i", "x">>        \* "prefix"
MsgHotfix == <<"H", "O", "T", "F", "I", "X">>        \* "HOTFIX"
MsgSplit == <<"f", "i", " ", "x">>                   \* "fi x"

Ann1 == [name |-> "ann", email |-> "ann@a.org"]
Ann2 == [name |-> "ann", email |-> "ann@b.org"]
Bob == [name |-> "bob", email |-> "bob@a.org"]

Date(d, h, o) == [parseable |-> TRUE, day |-> d, hour |-> h, off |-> o]

NotADate == [parseable |-> FALSE, day |-> 0, hour |-> 0, off |-> 0]

FC(f, a, d) == [filename |-> f, lines_added |-> a, lines_deleted |-> d]

Commit(h, au, d, m, fcs) ==
  [commit_hash |-> h, author |-> au, date |-> d, message |-> m, file_changes |-> fcs]

(***************************************************************************)
(* analyze_commit_history: the pandas pipeline of lines 116-126.           *)
(* Instants are minutes since day 0, 00:00 UTC.                            *)
(***************************************************************************)
MinutesPerHour == 60

HoursPerDay == 24

MinutesPerDay == MinutesPerHour * HoursPerDay

DaysPerWeek == 7

NaT == -1

\* mutant of ToDatetimeUTC: an unparseable date becomes the epoch instead of NaT
ToDatetimeUTCEpoch(d) ==
  IF d.parseable THEN d.day * MinutesPerDay + (d.hour - d.off) * MinutesPerHour ELSE 0

\* pd.to_datetime(s, utc=True, errors="coerce"): the UTC instant, NaT when unparseable
ToDatetimeUTC(d) ==
  IF d.parseable THEN d.day * MinutesPerDay + (d.hour - d.off) * MinutesPerHour ELSE NaT

\* the "date" column of the DataFrame after to_datetime
DateColumn(git_data) == [i \in 1..Len(git_data) |-> ToDatetimeUTC(git_data[i].date)]

\* mutant of DropNa: the dropna of line 122 left out
DropNaKeepsAll(col) == col

\* df.dropna(subset=["date"])
DropNa(col) == SelectSeq(col, LAMBDA t : t # NaT)

DayOf(t) == t \div MinutesPerDay

\* weekday of a day number: 0 = Monday ... 6 = Sunday
Weekday(d) == d % DaysPerWeek

SetMax(S) == CHOOSE x \in S : \A y \in S : y <= x

SetMin(S) == CHOOSE x \in S : \A y \in S : x <= y

\* Timestamp - Week(weekday=6): the latest Sunday strictly before day d
MinusWeek(d) == d - (Weekday(d) + 1)

\* Timestamp + Week(weekday=6): the earliest Sunday strictly after day d
PlusWeek(d) == IF Weekday(d) = DaysPerWeek - 1 THEN d + DaysPerWeek
               ELSE d + (DaysPerWeek - 1 - Weekday(d))

\* mutant of BinEdge: the edge left at 00:00 of the label's day
BinEdgeAtMidnight(s) == s * MinutesPerDay

\* a bin edge: day s at 00:00 plus one day minus one nanosecond, i.e. the last
\* instant of day s (the last tick of the day, a tick being a minute here)
BinEdge(s) == s * MinutesPerDay + (MinutesPerDay - 1)

\* mutant of ResampleW: only the weeks that hold a row are kept (a groupby)
ResampleWNonEmpty(col) ==
  LET ends == {CHOOSE u \in DayOf(col[i])..(DayOf(col[i]) + DaysPerWeek - 1) :
                 Weekday(u) = DaysPerWeek - 1 : i \in 1..Len(col)}
  IN [k \in ends |->
        Cardinality({i \in 1..Len(col) :
                       /\ BinEdge(k - DaysPerWeek) < col[i]
                       /\ col[i] <= BinEdge(k)})]

\* df.resample("W").size(): W is W-SUN, bins closed and labelled on the right.
\* Result: label (day number of a Sunday, 00:00 UTC) -> number of rows in the bin.
ResampleW(col) ==
  IF col = <<>> THEN EmptyDict
  ELSE LET days == {DayOf(col[i]) : i \in 1..Len(col)}
           tmax == SetMax({col[i] : i \in 1..Len(col)})
           first == MinusWeek(SetMin(days))
           last == PlusWeek(SetMax(days))
           binner0 == {s \in first..last : Weekday(s) = DaysPerWeek - 1}
           \* "intraday values on last day": drop the last edge when the
           \* second-to-last edge already lies beyond every value
           binner == IF BinEdge(SetMax(binner0 \ {SetMax(binner0)})) > tmax
                     THEN binner0 \ {SetMax(binner0)} ELSE binner0
           labels == binner \ {SetMin(binner)}
       IN [k \in labels |->
             Cardinality({i \in 1..Len(col) :
                            /\ BinEdge(k - DaysPerWeek) < col[i]
                            /\ col[i] <= BinEdge(k)})]

(***************************************************************************)
(* analyze_code_churn: lines 137-143.                                      *)
(***************************************************************************)
NoChurn == [added |-> 0, deleted |-> 0]

\* mutant of AddChurn: the totals assigned (=) instead of accumulated (+=)
AddChurnAssigns(churn, fc) ==
  [k \in DOMAIN churn \cup {fc.filename} |->
     IF k = fc.filename
     THEN [added |-> fc.lines_added, deleted |-> fc.lines_deleted]
     ELSE churn[k]]

\* file_churn[fn]["added"] += lines_added; file_churn[fn]["deleted"] += lines_deleted
AddChurn(churn, fc) ==
  LET cur == IF fc.filename \in DOMAIN churn THEN churn[fc.filename] ELSE NoChurn
  IN [k \in DOMAIN churn \cup {fc.filename} |->
        IF k = fc.filename
        THEN [added |-> cur.added + fc.lines_added,
              deleted |-> cur.deleted + fc.lines_deleted]
        ELSE churn[k]]

\* mutant of ChurnOfFiles: only the first entry of a commit is counted
ChurnOfFirstFile(churn, fcs) ==
  IF fcs = <<>> THEN churn ELSE AddChurn(churn, Head(fcs))

RECURSIVE ChurnOfFiles(_, _)
\* for file_change in commit["file_changes"]: ...
ChurnOfFiles(churn, fcs) ==
  IF fcs = <<>> THEN churn
  ELSE ChurnOfFiles(AddChurn(churn, Head(fcs)), Tail(fcs))

RECURSIVE ChurnOfCommits(_, _)
\* for commit in git_data: ...
ChurnOfCommits(churn, git_data) ==
  IF git_data = <<>> THEN churn
  ELSE ChurnOfCommits(ChurnOfFiles(churn, Head(git_data).file_changes), Tail(git_data))

FileChurn(git_data) == ChurnOfCommits(EmptyDict, git_data)

(***************************************************************************)
(* analyze_bug_prone_files: lines 157-161.                                 *)
(***************************************************************************)
\* bug_fixes[file_change["filename"]] += 1 on a defaultdict(int)
AddBugFix(bugs, fc) ==
  [k \in DOMAIN bugs \cup {fc.filename} |->
     IF k = fc.filename
     THEN (IF k \in DOMAIN bugs THEN bugs[k] ELSE 0) + 1
     ELSE bugs[k]]

RECURSIVE BugsOfFiles(_, _)
BugsOfFiles(bugs, fcs) ==
  IF fcs = <<>> THEN bugs
  ELSE BugsOfFiles(AddBugFix(bugs, Head(fcs)), Tail(fcs))

RECURSIVE BugsOfCommits(_, _)
BugsOfCommits(bugs, git_data) ==
  IF git_data = <<>> THEN bugs
  ELSE BugsOfCommits(
         IF IsFixMessage(Head(git_data).message)
         THEN BugsOfFiles(bugs, Head(git_data).file_changes)
         ELSE bugs,
         Tail(git_data))

BugFixes(git_data) == BugsOfCommits(EmptyDict, git_data)

(***************************************************************************)
(* analyze_top_contributors: lines 175-177.                                *)
(***************************************************************************)
\* mutant of AuthorKey: the commits keyed by the author's email
AuthorKeyIsEmail(commit) == commit.author.email

\* the dict key of a commit: commit["author"]["name"]
AuthorKey(commit) == commit.author.name

\* author_commits[key] += 1 on a defaultdict(int)
AddAuthorCommit(counts, commit) ==
  LET key == AuthorKey(commit)
  IN [k \in DOMAIN counts \cup {key} |->
        IF k = key THEN (IF k \in DOMAIN counts THEN counts[k] ELSE 0) + 1
        ELSE counts[k]]

RECURSIVE AuthorsOfCommits(_, _)
AuthorsOfCommits(counts, git_data) ==
  IF git_data = <<>> THEN counts
  ELSE AuthorsOfCommits(AddAuthorCommit(counts, Head(git_data)), Tail(git_data))

AuthorCommits(git_data) == AuthorsOfCommits(EmptyDict, git_data)

(***************************************************************************)
(* extract_git_history: lines 41-104.  The log file is the sequence of     *)
(* entries file.read().split("\n\n") yields; an entry is its first line,   *)
(* already split at "|" (header), and its remaining lines (body).  A body  *)
(* line is a numstat line "<added>\t<deleted>\t<filename>" the regular     *)
(* expression of line 86 matches, or any other text (matches = FALSE).     *)
(***************************************************************************)
Numstat(a, d, f) == [matches |-> TRUE, added |-> a, deleted |-> d, filename |-> f]

TextLine == [matches |-> FALSE, added |-> "", deleted |-> "", filename |-> ""]

LogEntry(hd, bd) == [header |-> hd, body |-> bd]

DigitValue == [s \in {"0", "1", "2", "5"} |->
                 CASE s = "0" -> 0 [] s = "1" -> 1 [] s = "2" -> 2 [] s = "5" -> 5]

\* int(match.group(n)) if match.group(n) != "-" else 0
LineCount(s) == IF s # "-" THEN DigitValue[s] ELSE 0

RECURSIVE FileChangesOf(_, _)
\* for line in lines[1:]: append a file change for every line the regex matches
FileChangesOf(file_changes, body) ==
  IF body = <<>> THEN file_changes
  ELSE FileChangesOf(
         IF Head(body).matches
         THEN Append(file_changes,
                     FC(Head(body).filename, LineCount(Head(body).added),
                        LineCount(Head(body).deleted)))
         ELSE file_changes,
         Tail(body))

\* commit_entry of lines 70-95, from commit_info[:5] and lines[1:]
CommitEntry(entry) ==
  Commit(entry.header[1],
         [name |-> entry.header[2], email |-> entry.header[3]],
         entry.header[4], entry.header[5],
         FileChangesOf(<<>>, entry.body))

\* existing_commits = {commit["commit_hash"] for commit in existing_data}
HashesOf(data) == {data[i].commit_hash : i \in 1..Len(data)}

\* the three `continue` tests of lines 63, 67 and 73
SkipsEntry(entry, existing_commits) ==
  \/ 1 + Len(entry.body) < 2
  \/ Len(entry.header) < 5
  \/ entry.header[1] \in existing_commits

RECURSIVE NewCommits(_, _, _)
\* the loop of lines 60-97
NewCommits(new_commits, log_data, existing_commits) ==
  IF log_data = <<>> THEN new_commits
  ELSE NewCommits(
         IF SkipsEntry(Head(log_data), existing_commits) THEN new_commits
         ELSE Append(new_commits, CommitEntry(Head(log_data))),
         Tail(log_data), existing_commits)

\* mutant of MergeSnapshots: the new commits appended after the existing ones
MergeSnapshotsAppends(new_commits, existing_data) == existing_data \o new_commits

\* updated_data = new_commits + existing_data
MergeSnapshots(new_commits, existing_data) == new_commits \o existing_data

(***************************************************************************)
(* Inputs.                                                                 *)
(***************************************************************************)
DMon == Date(7, 9, 0)        \* Monday 09:00 UTC
DSun == Date(13, 23, 0)      \* the Sunday of the same week, 23:00 UTC
DTzEast == Date(14, 0, 1)    \* Monday 00:00 +01:00, i.e. Sunday 23:00 UTC
DTzWest == Date(13, 23, -1)  \* Sunday 23:00 -01:00, i.e. Monday 00:00 UTC
DLate == Date(29, 12, 0)     \* a Tuesday two weeks later

FCNone == <<>>
FCX == <<FC("X.java", 2, 1)>>
FCX5 == <<FC("X.java", 5, 0)>>
FCDup == <<FC("X.java", 1, 1), FC("X.java", 2, 0)>>
FCYX == <<FC("Y.java", 1, 2), FC("X.java", 1, 0)>>

Hashes == <<"a1", "a2", "b7", "c3", "d9">>

\* author, date, message and file changes of the commits the analyses are run on
Variants ==
  { <<Ann1, DMon, MsgFix, FCX>>,
    <<Ann2, DSun, MsgAdd, FCX5>>,
    <<Bob, NotADate, MsgPrefix, FCYX>>,
    <<Bob, DTzEast, MsgHotfix, FCNone>>,
    <<Ann1, DLate, MsgSplit, FCYX>>,
    <<Bob, NotADate, MsgAdd, FCNone>>,
    <<Ann2, DTzWest, MsgHotfix, FCDup>>,
    <<Bob, DMon, MsgAdd, FCDup>> }

RECURSIVE SeqsUpTo(_, _)
\* all sequences over S of length at most n
SeqsUpTo(S, n) ==
  IF n = 0 THEN {<<>>}
  ELSE LET shorter == SeqsUpTo(S, n - 1)
       IN shorter \cup {Append(q, x) : q \in shorter, x \in S}

\* a snapshot: one commit per variant chosen, with pairwise distinct hashes
SnapshotOf(vs) ==
  [i \in 1..Len(vs) |-> Commit(Hashes[i], vs[i][1], vs[i][2], vs[i][3], vs[i][4])]

InitSnapshots == {NoFile} \cup {File(SnapshotOf(vs)) : vs \in SeqsUpTo(Variants, MaxCommits)}

\* a fix commit changing X.java, followed by its shortstat line
EntryFix ==
  LogEntry(<<"a1", "ann", "ann@a.org", DMon, MsgFix>>,
           <<Numstat("2", "1", "X.java"), TextLine>>)

\* a commit adding a binary file: numstat prints "-" for both counts
EntryBinary ==
  LogEntry(<<"a2", "bob", "bob@a.org", DSun, MsgAdd>>,
           <<Numstat("-", "-", "logo.png")>>)

\* a header line alone (a commit without changes): one line only
EntryHeaderOnly == LogEntry(<<"b7", "bob", "bob@a.org", DLate, MsgHotfix>>, <<>>)

\* numstat lines cut off from their header: the first line has no "|"
EntryStray == LogEntry(<<"5 1 X.java">>, <<Numstat("5", "1", "X.java")>>)

\* hash a1 again with other content and a "|" inside the subject (six fields)
EntryAgain ==
  LogEntry(<<"a1", "ann", "ann@b.org", DLate, MsgAdd, MsgFix>>,
           <<TextLine, Numstat("5", "0", "Y.java")>>)

LogEntries == {EntryFix, EntryBinary, EntryHeaderOnly, EntryStray, EntryAgain}

Logs == SeqsUpTo(LogEntries, MaxLog)

(***************************************************************************)
(* State machine.                                                          *)
(***************************************************************************)
NotRun == [o \in Ops |-> "not_run"]

\* no overlapping runs are under way
NoRuns == <<>>

\* the locals of extract_directory_structure.process_repositories between calls
Idle ==
  [pc |-> "idle", row |-> 1, existing_data |-> <<>>, processed_repos |-> {},
   loaded |-> <<>>, results |-> <<>>]

\* search_json is not running
SearchIdle == [pc |-> "idle"]

\* fetch_github_repositories is not running
FetchIdle == [pc |-> "idle"]

\* extract_commit_history is not running
WriterIdle == [pc |-> "idle"]

\* analyze_commits has not been called
TestingIdle == [pc |-> "idle"]

\* the four other scripts are not running and have written no file
RestIdle ==
  /\ filtered_json = NoFile
  /\ search = SearchIdle
  /\ fetch = FetchIdle
  /\ commit_history_json = NoFile
  /\ writer = WriterIdle
  /\ testing = TestingIdle

\* extract_directory_structure.py is not running and has written no file
NoScan ==
  /\ output_json = NoFile
  /\ csv = <<>>
  /\ scan = Idle

\* process_repositories.py is not running and has left no progress log
NoProgress ==
  /\ progress_log = NoFile
  /\ repositories = <<>>
  /\ repo_index = 1
  /\ repo_phase = "begin"
  /\ caught = "None"

\* print(f"..."): one printed line, the text of the format and the values put
\* into it
Line(text, args) == [text |-> text, args |-> args]

\* a file whose text json.load cannot parse
CorruptFile == [exists |-> TRUE, text |-> "{"]

\* json.load(file) returns
IsJson(f) == "data" \in DOMAIN f

\* some commit of git_data has none of the keys a loop subscripts
Missing(git_data, keys) ==
  \E i \in 1..Len(git_data) : ~(keys \subseteq DOMAIN git_data[i])

Init ==
  /\ git_history \in InitSnapshots
  /\ git_history_log = NoFile
  /\ commit_frequency = NoFile
  /\ code_churn = NoFile
  /\ bug_prone_files = NoFile
  /\ top_contributors = NoFile
  /\ outcome = NotRun
  /\ stdout = <<>>
  /\ run = NoRuns
  /\ written = <<>>
  /\ NoProgress
  /\ NoScan
  /\ RestIdle

\* the first run on a fresh clone: no snapshot yet
InitExtract ==
  /\ git_history = NoFile
  /\ git_history_log = NoFile
  /\ commit_frequency = NoFile
  /\ code_churn = NoFile
  /\ bug_prone_files = NoFile
  /\ top_contributors = NoFile
  /\ outcome = NotRun
  /\ stdout = <<>>
  /\ run = NoRuns
  /\ written = <<>>
  /\ NoProgress
  /\ NoScan
  /\ RestIdle

Ends(op, how) == outcome' = [outcome EXCEPT ![op] = how]

\* mutant of Raises: the exception is swallowed and the call returns
RaisesSwallowed(op, error) ==
  /\ Ends(op, "returned")
  /\ stdout' = <<>>
  /\ UNCHANGED <<git_history, git_history_log, reports, elsewhere>>

\* a call that raises before it writes or prints anything
Raises(op, error) ==
  /\ Ends(op, error)
  /\ stdout' = <<>>
  /\ UNCHANGED <<git_history, git_history_log, reports, elsewhere>>

\* save_analysis_results(data, filename, json_dir) of one report
Saved(filename) == stdout' = <<Line("Analysis saved", <<filename>>)>>

\* extract_git_history(repo_name), `git log` printing `log`
ExtractGitHistory(log) ==
  IF git_history.exists /\ ~IsJson(git_history)
  THEN Raises("extract_git_history", "JSONDecodeError")
  ELSE
  LET existing_data == IF git_history.exists THEN git_history.data ELSE <<>>
      existing_commits == HashesOf(existing_data)
      new_commits == NewCommits(<<>>, log, existing_commits)
      updated_data == MergeSnapshots(new_commits, existing_data)
  IN /\ Len(updated_data) <= MaxSnapshot
     /\ git_history_log' = File(log)
     /\ git_history' = File(updated_data)
     /\ Ends("extract_git_history", "returned")
     /\ stdout' = <<Line("Git data saved in",
                         <<"git_history.json", ToString(Len(new_commits))>>)>>
     /\ UNCHANGED <<reports, elsewhere>>

\* analyze_commit_history(json_file, repo_name)
AnalyzeCommitHistory ==
  IF ~git_history.exists
  THEN Raises("analyze_commit_history", "FileNotFoundError")
  ELSE IF ~IsJson(git_history)
  THEN Raises("analyze_commit_history", "JSONDecodeError")
  ELSE IF Missing(git_history.data, {"commit_hash", "author", "date", "message"})
  \* the list comprehension of lines 116-119 subscripts all four keys
  THEN Raises("analyze_commit_history", "KeyError")
  ELSE IF git_history.data = <<>>
  \* pd.DataFrame([]) has no "date" column: line 121 raises
  THEN Raises("analyze_commit_history", "KeyError")
  ELSE /\ commit_frequency' = File(ResampleW(DropNa(DateColumn(git_history.data))))
       /\ Ends("analyze_commit_history", "returned")
       /\ Saved("commit_frequency.json")
       /\ UNCHANGED <<git_history, git_history_log, code_churn, bug_prone_files,
                      top_contributors, elsewhere>>

\* analyze_code_churn(json_file, repo_name)
AnalyzeCodeChurn ==
  IF ~git_history.exists
  THEN Raises("analyze_code_churn", "FileNotFoundError")
  ELSE IF ~IsJson(git_history)
  THEN Raises("analyze_code_churn", "JSONDecodeError")
  ELSE IF Missing(git_history.data, {"file_changes"})
  THEN Raises("analyze_code_churn", "KeyError")
  ELSE LET churn_data == FileChurn(git_history.data)
       IN /\ code_churn' = File(churn_data)
          /\ Saved("code_churn.json")
          \* the report is saved first; an empty DataFrame has no "added"
          \* column, so line 147 raises
          /\ IF DOMAIN churn_data = {}
             THEN Ends("analyze_code_churn", "KeyError")
             ELSE Ends("analyze_code_churn", "returned")
          /\ UNCHANGED <<git_history, git_history_log, commit_frequency,
                         bug_prone_files, top_contributors, elsewhere>>

\* mutant of AnalyzeBugProneFiles: the bug counts are saved under the name of
\* the churn report
AnalyzeBugProneFilesAsChurn ==
  /\ git_history.exists
  /\ code_churn' = File(BugFixes(git_history.data))
  /\ Ends("analyze_bug_prone_files", "returned")
  /\ Saved("code_churn.json")
  /\ UNCHANGED <<git_history, git_history_log, commit_frequency,
                 bug_prone_files, top_contributors, elsewhere>>

\* analyze_bug_prone_files(json_file, repo_name)
AnalyzeBugProneFiles ==
  IF ~git_history.exists
  THEN Raises("analyze_bug_prone_files", "FileNotFoundError")
  ELSE IF ~IsJson(git_history)
  THEN Raises("analyze_bug_prone_files", "JSONDecodeError")
  ELSE IF \/ Missing(git_history.data, {"message"})
          \/ Missing(SelectSeq(git_history.data,
                               LAMBDA commit : IsFixMessage(commit.message)),
                     {"file_changes"})
  \* line 159 subscripts the message of every commit, line 160 the
  \* file_changes of the fix commits
  THEN Raises("analyze_bug_prone_files", "KeyError")
  ELSE /\ bug_prone_files' = File(BugFixes(git_history.data))
       /\ Ends("analyze_bug_prone_files", "returned")
       /\ Saved("bug_prone_files.json")
       /\ UNCHANGED <<git_history, git_history_log, commit_frequency, code_churn,
                      top_contributors, elsewhere>>

\* analyze_top_contributors(json_file, repo_name)
AnalyzeTopContributors ==
  IF ~git_history.exists
  THEN Raises("analyze_top_contributors", "FileNotFoundError")
  ELSE IF ~IsJson(git_history)
  THEN Raises("analyze_top_contributors", "JSONDecodeError")
  ELSE IF Missing(git_history.data, {"author"})
  THEN Raises("analyze_top_contributors", "KeyError")
  ELSE /\ top_contributors' = File(AuthorCommits(git_history.data))
       /\ Ends("analyze_top_contributors", "returned")
       /\ Saved("top_contributors.json")
       /\ UNCHANGED <<git_history, git_history_log, commit_frequency, code_churn,
                      bug_prone_files, elsewhere>>

Next ==
  \/ AnalyzeCommitHistory
  \/ AnalyzeCodeChurn
  \/ AnalyzeBugProneFiles
  \/ AnalyzeTopContributors

\* the analyses of a persisted snapshot
Spec == Init /\ [][Next]_vars

NextExtract == \E log \in Logs : ExtractGitHistory(log)

\* repeated extraction runs on one clone
SpecExtract == InitExtract /\ [][NextExtract]_vars

(***************************************************************************)
(* Two runs of extract_git_history on one clone that may overlap: each run *)
(* is split at its file operations.                                        *)
(***************************************************************************)
Runs == {"r1", "r2"}

\* the `git log` outputs of the overlapping runs
RaceLogs == SeqsUpTo({EntryFix, EntryBinary}, MaxLog)

\* a snapshot of one commit, with the hash a1 of EntryFix
RaceSnapshot == File(SnapshotOf(<< <<Bob, DSun, MsgAdd, FCYX>> >>))

InitRace ==
  /\ git_history \in {NoFile, RaceSnapshot}
  /\ git_history_log = NoFile
  /\ commit_frequency = NoFile
  /\ code_churn = NoFile
  /\ bug_prone_files = NoFile
  /\ top_contributors = NoFile
  /\ outcome = NotRun
  /\ stdout = <<>>
  /\ run = [r \in Runs |-> [pc |-> "start", existing_data |-> <<>>,
                             new_commits |-> <<>>, seen |-> 0]]
  /\ written = <<>>
  /\ NoProgress
  /\ NoScan
  /\ RestIdle

\* lines 41-47: the run loads the snapshot, or starts from [] if there is none
\* (seen notes how many saves had happened by then)
LoadSnapshot(r) ==
  /\ run[r].pc = "start"
  /\ run' = [run EXCEPT ![r].pc = "loaded",
                        ![r].existing_data =
                           IF git_history.exists THEN git_history.data ELSE <<>>,
                        ![r].seen = Len(written)]
  /\ UNCHANGED <<git_history, git_history_log, reports, outcome, stdout, written,
                 otherScripts>>

\* lines 52-54: `git log` writes its output to git_history.log
WriteLog(r, log) ==
  /\ run[r].pc = "loaded"
  /\ git_history_log' = File(log)
  /\ run' = [run EXCEPT ![r].pc = "logged"]
  /\ UNCHANGED <<git_history, reports, outcome, stdout, written, otherScripts>>

\* lines 57-97: the run reads git_history.log back and parses it
ParseLog(r) ==
  /\ run[r].pc = "logged"
  /\ run' = [run EXCEPT ![r].pc = "parsed",
                        ![r].new_commits =
                           NewCommits(<<>>, git_history_log.data,
                                      HashesOf(run[r].existing_data))]
  /\ UNCHANGED <<git_history, git_history_log, reports, outcome, stdout, written,
                 otherScripts>>

\* mutant of SaveSnapshot: the run merges into the snapshot as it is on disk at
\* the time of the save
SaveSnapshotRereads(r) ==
  /\ run[r].pc = "parsed"
  /\ git_history' =
       File(MergeSnapshots(
              SelectSeq(run[r].new_commits,
                        LAMBDA c : c.commit_hash \notin HashesOf(git_history.data)),
              git_history.data))
  /\ run' = [run EXCEPT ![r].pc = "done"]
  /\ written' = Append(written, r)
  /\ Ends("extract_git_history", "returned")
  /\ stdout' = <<Line("Git data saved in",
                      <<"git_history.json", ToString(Len(run[r].new_commits))>>)>>
  /\ UNCHANGED <<git_history_log, reports, otherScripts>>

\* lines 100-106: the run saves new_commits + existing_data and prints
SaveSnapshot(r) ==
  /\ run[r].pc = "parsed"
  /\ git_history' = File(MergeSnapshots(run[r].new_commits, run[r].existing_data))
  /\ run' = [run EXCEPT ![r].pc = "done"]
  /\ written' = Append(written, r)
  /\ Ends("extract_git_history", "returned")
  /\ stdout' = <<Line("Git data saved in",
                      <<"git_history.json", ToString(Len(run[r].new_commits))>>)>>
  /\ UNCHANGED <<git_history_log, reports, otherScripts>>

NextRace ==
  \E r \in Runs :
    \/ LoadSnapshot(r)
    \/ \E log \in RaceLogs : WriteLog(r, log)
    \/ ParseLog(r)
    \/ SaveSnapshot(r)

\* two runs of extract_git_history, in any interleaving of their file operations
SpecRace == InitRace /\ [][NextRace]_vars

\* the commit without one of its keys
Lacking(commit, key) == [k \in DOMAIN commit \ {key} |-> commit[k]]

\* git_data with its i-th record lacking one key
Damage(git_data, i, key) ==
  [j \in 1..Len(git_data) |->
     IF j = i THEN Lacking(git_data[j], key) ELSE git_data[j]]

\* the commits the damaged snapshots are made of: all carry file changes
DamagedVariants ==
  { <<Ann1, DMon, MsgFix, FCX>>,
    <<Bob, DSun, MsgAdd, FCYX>>,
    <<Ann2, DLate, MsgHotfix, FCX5>> }

\* snapshots that hold one record without its author, date or file_changes
DamagedSnapshots ==
  UNION { { File(Damage(SnapshotOf(vs), i, key)) :
              i \in 1..Len(vs), key \in {"author", "date", "file_changes"} } :
          vs \in SeqsUpTo(DamagedVariants, MaxCommits) }

\* git_history.json is missing or is not JSON
Unreadable(f) == ~f.exists \/ ~IsJson(f)

InitDamaged ==
  /\ git_history \in {NoFile, CorruptFile} \cup DamagedSnapshots
  /\ git_history_log = NoFile
  /\ commit_frequency = NoFile
  /\ code_churn = NoFile
  /\ bug_prone_files = NoFile
  /\ top_contributors = NoFile
  /\ outcome = NotRun
  /\ stdout = <<>>
  /\ run = NoRuns
  /\ written = <<>>
  /\ NoProgress
  /\ NoScan
  /\ RestIdle

NextDamaged ==
  \/ AnalyzeCommitHistory
  \/ AnalyzeCodeChurn
  \/ AnalyzeBugProneFiles
  \/ AnalyzeTopContributors
  \/ \E log \in Logs : Unreadable(git_history) /\ ExtractGitHistory(log)

\* the five functions on a snapshot that is missing, not JSON, or holds a
\* record without one of its keys
SpecDamaged == InitDamaged /\ [][NextDamaged]_vars

(***************************************************************************)
(* process_repositories.py: the loop over the lines of repositories_text   *)
(* and the progress log it keeps.                                          *)
(***************************************************************************)
MaxRepos == 3       \* most lines of repositories_text

\* repo_data.split(","): the first field is the name, the last one the URL
RepoLine(name, url) == [repo_name |-> name, git_url |-> url]

\* lines of repositories_text; the third one names JavaGuide again
RepoLines ==
  { RepoLine("JavaGuide", "https://github.com/Snailclimb/JavaGuide"),
    RepoLine("hello-algo", "https://github.com/krahets/hello-algo"),
    RepoLine("JavaGuide", "https://github.com/fork/JavaGuide") }

\* str(e) of the exceptions extract_commit_history_from_url raises
Exceptions == {"CalledProcessError", "InvalidGitRepositoryError"}

\* progress_log[repository] = {"status": status, "message": message}
LogEntryOf(status, message) == [status |-> status, message |-> message]

\* mutant of Put: the dict is started afresh
PutAlone(d, k, v) == [x \in {k} |-> v]

\* d[k] = v on a dict
Put(d, k, v) == [x \in DOMAIN d \cup {k} |-> IF x = k THEN v ELSE d[x]]

\* update_progress_log(repository, status, message)
UpdateProgressLog(repository, status, message) ==
  LET loaded == IF progress_log.exists THEN progress_log.data ELSE EmptyDict
  IN progress_log' = File(Put(loaded, repository, LogEntryOf(status, message)))

\* progress logs left by an earlier run
EarlierLogs ==
  {NoFile} \cup
  { File([n \in names |-> LogEntryOf(status, <<"earlier run">>)]) :
      names \in SUBSET {"JavaGuide", "hello-algo", "mall"},
      status \in {"in_progress", "completed", "error"} }

InitProgress ==
  /\ git_history = NoFile
  /\ git_history_log = NoFile
  /\ commit_frequency = NoFile
  /\ code_churn = NoFile
  /\ bug_prone_files = NoFile
  /\ top_contributors = NoFile
  /\ outcome = NotRun
  /\ stdout = <<>>
  /\ run = NoRuns
  /\ written = <<>>
  /\ progress_log \in EarlierLogs
  /\ repositories \in SeqsUpTo(RepoLines, MaxRepos)
  /\ repo_index = 1
  /\ repo_phase = "begin"
  /\ caught = "None"
  /\ NoScan
  /\ RestIdle

\* lines 55-69: the next line is split and its repository marked in_progress
StartRepository ==
  /\ repo_phase = "begin"
  /\ repo_index <= Len(repositories)
  /\ UpdateProgressLog(repositories[repo_index].repo_name, "in_progress",
                       <<"Started processing repository",
                         repositories[repo_index].git_url>>)
  /\ repo_phase' = "extracting"
  /\ UNCHANGED <<repositories, repo_index, caught, gitVars, structureVars, restVars>>

\* lines 73-75: extract_commit_history_from_url returns
ExtractionReturns ==
  /\ repo_phase = "extracting"
  /\ UpdateProgressLog(repositories[repo_index].repo_name, "completed",
                       <<"Commit history saved to",
                         repositories[repo_index].repo_name>>)
  /\ caught' = "None"
  /\ repo_index' = repo_index + 1
  /\ repo_phase' = "begin"
  /\ UNCHANGED <<repositories, gitVars, structureVars, restVars>>

\* lines 73, 76-78: extract_commit_history_from_url raises e
ExtractionRaises(e) ==
  /\ repo_phase = "extracting"
  /\ UpdateProgressLog(repositories[repo_index].repo_name, "error", <<e>>)
  /\ caught' = e
  /\ repo_index' = repo_index + 1
  /\ repo_phase' = "begin"
  /\ UNCHANGED <<repositories, gitVars, structureVars, restVars>>

NextProgress ==
  \/ StartRepository
  \/ ExtractionReturns
  \/ \E e \in Exceptions : ExtractionRaises(e)

\* one call of process_repositories(repositories_text); every extraction
\* returns or raises in the end
SpecProgress == InitProgress /\ [][NextProgress]_vars /\ WF_vars(NextProgress)

(***************************************************************************)
(* extract_directory_structure.py: process_repositories(csv_file,          *)
(* output_json) clones every repository of the CSV file that the output    *)
(* file does not name yet and rewrites the output file after each clone.   *)
(***************************************************************************)
MaxRows == 2        \* most rows of a CSV file

\* one row of the CSV file (the columns the model follows)
Row(name, owner, url) == [Name |-> name, Owner |-> owner, URL |-> url]

\* rows of CSV files; two of them carry the Name guava
Rows ==
  { Row("guava", "google", "https://github.com/google/guava"),
    Row("jadx", "skylot", "https://github.com/skylot/jadx"),
    Row("RxJava", "ReactiveX", "https://github.com/ReactiveX/RxJava"),
    Row("guava", "fork", "https://github.com/fork/guava") }

\* the dicts get_repo_structure builds from os.walk, as opaque values
Structures == {"{'.': {'files': ['pom.xml']}}", "{'.': {'files': ['README.md']}}"}

\* new_repo_data of lines 95-104
NewRepoData(row, structure) ==
  [name |-> row.Name, owner |-> row.Owner, url |-> row.URL,
   directory_structure |-> structure]

\* mutant of LoadExistingJson: every run starts from the empty list
LoadExistingJsonFresh(f) == <<>>

\* load_existing_json(output_json)
LoadExistingJson(f) == IF f.exists /\ IsJson(f) THEN f.data ELSE <<>>

\* {repo["name"] for repo in existing_data}
NamesOf(data) == {data[i].name : i \in 1..Len(data)}

\* the output files a first run may find: none, one that is not JSON, or one
\* entry written by an earlier run
InitOutputs ==
  {NoFile, CorruptFile} \cup
  {File(<<NewRepoData(row, structure)>>) : row \in Rows, structure \in Structures}

InitStructure ==
  /\ git_history = NoFile
  /\ git_history_log = NoFile
  /\ commit_frequency = NoFile
  /\ code_churn = NoFile
  /\ bug_prone_files = NoFile
  /\ top_contributors = NoFile
  /\ outcome = NotRun
  /\ stdout = <<>>
  /\ run = NoRuns
  /\ written = <<>>
  /\ NoProgress
  /\ RestIdle
  /\ output_json \in InitOutputs
  /\ csv = <<>>
  /\ scan = Idle

\* the loop is at a row whose Name is (or is not) in processed_repos
AtRow(processed) ==
  /\ scan.pc = "rows"
  /\ scan.row <= Len(csv)
  /\ (csv[scan.row].Name \in scan.processed_repos) = processed

\* the loop moves on, noting what get_repo_structure gave for the row
NextRow(sc, result) ==
  [sc EXCEPT !.row = sc.row + 1, !.results = Append(sc.results, result)]

\* lines 66-79: the CSV file is read and the output file loaded
\* (loaded keeps what the output file held at that time)
StartRun(rows) ==
  /\ scan.pc = "idle"
  /\ csv' = rows
  /\ scan' = [pc |-> "rows", row |-> 1,
              existing_data |-> LoadExistingJson(output_json),
              processed_repos |-> NamesOf(LoadExistingJson(output_json)),
              loaded |-> LoadExistingJson(output_json),
              results |-> <<>>]
  /\ UNCHANGED <<output_json, gitVars, progressVars, restVars>>

\* lines 81-88: the row's Name is in processed_repos
SkipRow ==
  /\ AtRow(TRUE)
  /\ scan' = NextRow(scan, "skipped")
  /\ UNCHANGED <<output_json, csv, gitVars, progressVars, restVars>>

\* lines 91-112: the clone succeeds, the entry is appended and the file rewritten
CloneSucceeds(structure) ==
  /\ AtRow(FALSE)
  /\ LET new_repo_data == NewRepoData(csv[scan.row], structure)
         appended == Append(scan.existing_data, new_repo_data)
     IN /\ output_json' = File(appended)
        /\ scan' = [NextRow(scan, structure) EXCEPT
                      !.existing_data = appended,
                      !.processed_repos = @ \cup {new_repo_data.name}]
  /\ UNCHANGED <<csv, gitVars, progressVars, restVars>>

\* mutant of CloneFails: the failed row's Name is put into processed_repos
CloneFailsMarked ==
  /\ AtRow(FALSE)
  /\ scan' = [NextRow(scan, "None") EXCEPT
                !.processed_repos = @ \cup {csv[scan.row].Name}]
  /\ UNCHANGED <<output_json, csv, gitVars, progressVars, restVars>>

\* lines 91-93 and 45-47: git clone fails, get_repo_structure returns None
CloneFails ==
  /\ AtRow(FALSE)
  /\ scan' = NextRow(scan, "None")
  /\ UNCHANGED <<output_json, csv, gitVars, progressVars, restVars>>

\* lines 91 and 116-117: get_repo_structure raises something other than
\* CalledProcessError; the outer handler prints it and the call returns
RunAborts ==
  /\ AtRow(FALSE)
  /\ scan' = [scan EXCEPT !.pc = "idle"]
  /\ UNCHANGED <<output_json, csv, gitVars, progressVars, restVars>>

\* line 114: the loop is over
EndRun ==
  /\ scan.pc = "rows"
  /\ scan.row = Len(csv) + 1
  /\ scan' = [scan EXCEPT !.pc = "idle"]
  /\ UNCHANGED <<output_json, csv, gitVars, progressVars, restVars>>

NextStructure ==
  \/ \E rows \in SeqsUpTo(Rows, MaxRows) : StartRun(rows)
  \/ SkipRow
  \/ \E structure \in Structures : CloneSucceeds(structure)
  \/ CloneFails
  \/ RunAborts
  \/ EndRun

\* calls of process_repositories(csv_file, output_json), one after the other
SpecStructure == InitStructure /\ [][NextStructure]_vars

(***************************************************************************)
(* queryDirectoryStructure.py: search_json(input_json, output_json,        *)
(* query_items) keeps, per repository, the directory and file names that   *)
(* match a query not matched before.  A directory_structure dict is a      *)
(* sequence of its items in insertion order.                               *)
(***************************************************************************)
MaxScanned == 2     \* most repositories of the input JSON file
MaxQueries == 2     \* most entries of query_items

\* the git files and the overlapping runs are as at the start
NoGit ==
  /\ git_history = NoFile
  /\ git_history_log = NoFile
  /\ commit_frequency = NoFile
  /\ code_churn = NoFile
  /\ bug_prone_files = NoFile
  /\ top_contributors = NoFile
  /\ outcome = NotRun
  /\ stdout = <<>>
  /\ run = NoRuns
  /\ written = <<>>

QTest == <<"t", "e", "s", "t">>
QTestCap == <<"T", "e", "s", "t">>
QSrc == <<"s", "r", "c">>

\* keywords of query_items; two of them differ in case only
Queries == {QTest, QTestCap, QSrc}

NameSrc == <<"s", "r", "c">>
NameTests == <<"T", "e", "s", "t", "s">>
NameDocs == <<"d", "o", "c", "s">>
NameATest == <<"a", "t", "e", "s", "t">>
NameSrcTest == <<"s", "r", "c", "t", "e", "s", "t">>

\* one item of a directory_structure dict
Dir(dir_path, directories, files) ==
  [dir_path |-> dir_path, directories |-> directories, files |-> files]

TreeA ==
  << Dir(".", <<NameSrc, NameTests>>, <<NameDocs>>),
     Dir("src", <<NameSrcTest>>, <<NameATest>>),
     Dir("docs", <<>>, <<NameTests>>) >>

TreeB == << Dir(".", <<NameDocs>>, <<>>) >>

TreeC == <<>>

TreeD ==
  << Dir(".", <<>>, <<NameSrcTest, NameTests>>),
     Dir("lib", <<NameSrc>>, <<>>) >>

\* one repository of the input JSON file
Repo(name, tree) == [name |-> name, directory_structure |-> tree]

InputRepos ==
  {Repo("guava", TreeA), Repo("jadx", TreeB), Repo("RxJava", TreeC),
   Repo("mall", TreeD)}

\* query.lower() in name.lower() and query not in matched_queries
Matches(query, name, matched_queries) ==
  /\ Contains(Lower(name), Lower(query))
  /\ query \notin matched_queries

\* the inner loop over query_items: the index of the first query that matches
\* the name and is not matched yet, 0 if there is none
FirstMatch(name, query_items, matched_queries) ==
  LET hits == {q \in 1..Len(query_items) :
                 Matches(query_items[q], name, matched_queries)}
  IN IF hits = {} THEN 0 ELSE SetMin(hits)

RECURSIVE MatchNames(_, _, _, _)
\* lines 29-34 (and 37-42): the names kept, and matched_queries after the loop
MatchNames(names, query_items, kept, matched_queries) ==
  IF names = <<>> THEN [kept |-> kept, matched_queries |-> matched_queries]
  ELSE LET q == FirstMatch(Head(names), query_items, matched_queries)
       IN IF q = 0
          THEN MatchNames(Tail(names), query_items, kept, matched_queries)
          ELSE MatchNames(Tail(names), query_items, Append(kept, Head(names)),
                          matched_queries \cup {query_items[q]})

InitSearch ==
  /\ NoGit
  /\ NoProgress
  /\ NoScan
  /\ filtered_json = NoFile
  /\ search \in
       { [pc |-> "scanning", repositories |-> repos, query_items |-> queries,
          repo |-> 1, dir |-> 1, stopped |-> FALSE, matched_queries |-> {},
          matched_directory_structure |-> <<>>, matched_repositories |-> <<>>] :
         repos \in SeqsUpTo(InputRepos, MaxScanned),
         queries \in SeqsUpTo(Queries, MaxQueries) }
  /\ fetch = FetchIdle
  /\ commit_history_json = NoFile
  /\ writer = WriterIdle
  /\ testing = TestingIdle

\* the directory_structure of the repository the outer loop is at
TreeAt(s) == s.repositories[s.repo].directory_structure

\* lines 24-53: one item of the directory structure is searched
ScanDirectory ==
  /\ search.pc = "scanning"
  /\ search.repo <= Len(search.repositories)
  /\ ~search.stopped
  /\ search.dir <= Len(TreeAt(search))
  /\ LET contents == TreeAt(search)[search.dir]
         dirs == MatchNames(contents.directories, search.query_items, <<>>,
                            search.matched_queries)
         files == MatchNames(contents.files, search.query_items, <<>>,
                             dirs.matched_queries)
     IN search' =
          [search EXCEPT
             !.matched_queries = files.matched_queries,
             !.matched_directory_structure =
                IF dirs.kept # <<>> \/ files.kept # <<>>
                THEN Append(@, Dir(contents.dir_path, dirs.kept, files.kept))
                ELSE @,
             !.stopped =
                Cardinality(files.matched_queries) = Len(search.query_items),
             !.dir = @ + 1]
  /\ UNCHANGED <<filtered_json, gitVars, progressVars, structureVars, fetch,
                 historyVars, testing>>

\* lines 56-68: the loop over the structure is over; the repository is kept if
\* it has a match
FinishRepository ==
  /\ search.pc = "scanning"
  /\ search.repo <= Len(search.repositories)
  /\ search.stopped \/ search.dir > Len(TreeAt(search))
  /\ search' =
       [search EXCEPT
          !.matched_repositories =
             IF search.matched_directory_structure # <<>>
             THEN Append(@, [name |-> search.repositories[search.repo].name,
                             query_items_matched |-> search.matched_queries,
                             directory_structure |->
                               search.matched_directory_structure])
             ELSE @,
          !.repo = @ + 1,
          !.dir = 1,
          !.stopped = FALSE,
          !.matched_queries = {},
          !.matched_directory_structure = <<>>]
  /\ UNCHANGED <<filtered_json, gitVars, progressVars, structureVars, fetch,
                 historyVars, testing>>

\* lines 71-74: the filtered list is written
SaveFiltered ==
  /\ search.pc = "scanning"
  /\ search.repo = Len(search.repositories) + 1
  /\ filtered_json' = File(search.matched_repositories)
  /\ search' = [search EXCEPT !.pc = "saved"]
  /\ UNCHANGED <<gitVars, progressVars, structureVars, fetch, historyVars, testing>>

NextSearch ==
  \/ ScanDirectory
  \/ FinishRepository
  \/ SaveFiltered

\* one call of search_json
SpecSearch == InitSearch /\ [][NextSearch]_vars

(***************************************************************************)
(* searchgit.py: fetch_github_repositories(query, max_pages, per_page)     *)
(* pages through the GitHub search API.  exchange is the list of the       *)
(* requests sent so far, each with the kind of response it got.            *)
(***************************************************************************)
MaxPages == 3       \* largest max_pages
MaxRateLimits == 2  \* most rate-limit responses of one call
MaxPerPage == 2     \* most items of one page

\* the n search results of a page, each named by its page and rank
PageItems(page, n) == [rank \in 1..n |-> [page |-> page, rank |-> rank]]

InitFetch ==
  /\ NoGit
  /\ NoProgress
  /\ NoScan
  /\ filtered_json = NoFile
  /\ search = SearchIdle
  /\ fetch \in {[pc |-> "fetching", max_pages |-> m, current_page |-> 1,
                 all_repositories |-> <<>>, exchange |-> <<>>] :
                m \in 0..MaxPages}
  /\ commit_history_json = NoFile
  /\ writer = WriterIdle
  /\ testing = TestingIdle

\* line 25 holds and requests.get of lines 29-31 is sent
Requesting ==
  /\ fetch.pc = "fetching"
  /\ fetch.current_page <= fetch.max_pages

\* the request of this iteration and the kind of its response
Exchanged(response) ==
  Append(fetch.exchange, [page |-> fetch.current_page, response |-> response])

\* the number of responses of one kind so far
CountOf(exchange, response) ==
  Cardinality({i \in 1..Len(exchange) : exchange[i].response = response})

\* the state of the other scripts
besidesFetch ==
  <<gitVars, progressVars, structureVars, searchVars, historyVars, testing>>

\* lines 33-52: status 200 with n items
PageFetched(n) ==
  /\ Requesting
  /\ fetch' = [fetch EXCEPT
                 !.all_repositories = @ \o PageItems(fetch.current_page, n),
                 !.current_page = @ + 1,
                 !.exchange = Exchanged("items")]
  /\ UNCHANGED besidesFetch

\* lines 33-38: status 200 without items
EmptyPage ==
  /\ Requesting
  /\ fetch' = [fetch EXCEPT !.pc = "returned", !.exchange = Exchanged("empty")]
  /\ UNCHANGED besidesFetch

\* mutant of RateLimited: the loop moves to the next page after the wait
RateLimitedSkipsPage ==
  /\ Requesting
  /\ CountOf(fetch.exchange, "rate_limit") < MaxRateLimits
  /\ fetch' = [fetch EXCEPT !.current_page = @ + 1,
                            !.exchange = Exchanged("rate_limit")]
  /\ UNCHANGED besidesFetch

\* lines 54-62: status 403 with an X-RateLimit-Reset header; the loop goes
\* round again after the wait
RateLimited ==
  /\ Requesting
  /\ CountOf(fetch.exchange, "rate_limit") < MaxRateLimits
  /\ fetch' = [fetch EXCEPT !.exchange = Exchanged("rate_limit")]
  /\ UNCHANGED besidesFetch

\* lines 64-66: any other status
ErrorStatus ==
  /\ Requesting
  /\ fetch' = [fetch EXCEPT !.pc = "returned", !.exchange = Exchanged("error")]
  /\ UNCHANGED besidesFetch

\* line 31: requests.get raises, the exception leaves the function
RequestRaises ==
  /\ Requesting
  /\ fetch' = [fetch EXCEPT !.pc = "raised", !.exchange = Exchanged("raised")]
  /\ UNCHANGED besidesFetch

\* lines 25 and 69-70: max_pages pages are collected
PagesExhausted ==
  /\ fetch.pc = "fetching"
  /\ fetch.current_page > fetch.max_pages
  /\ fetch' = [fetch EXCEPT !.pc = "returned"]
  /\ UNCHANGED besidesFetch

NextFetch ==
  \/ \E n \in 1..MaxPerPage : PageFetched(n)
  \/ EmptyPage
  \/ RateLimited
  \/ ErrorStatus
  \/ RequestRaises
  \/ PagesExhausted

\* one call of fetch_github_repositories; every request is answered in the end
SpecFetch == InitFetch /\ [][NextFetch]_vars /\ WF_vars(NextFetch)

(***************************************************************************)
(* extract_commit_history.py: extract_commit_history(repo_path, git_url,   *)
(* output_path, years_back) writes the commits of the time window as a     *)
(* JSON array, piece by piece.  The file is the sequence of the pieces     *)
(* written to it.                                                          *)
(***************************************************************************)
MaxHistory == 3     \* most commits repo.iter_commits() yields

\* a piece of text written by f.write
Text(t) == [text |-> t, commit_info |-> [id |-> "", fileChanges |-> <<>>]]

\* a commit object written by json.dump
Object(commit_info) == [text |-> "object", commit_info |-> commit_info]

\* one entry of commit.stats.files
Stat(file, insertions, deletions) ==
  [file |-> file, insertions |-> insertions, deletions |-> deletions]

\* lines 35-39: the change type of one file
ChangeType(change_info) ==
  IF change_info.insertions > 0 /\ change_info.deletions = 0 THEN "ADDED"
  ELSE IF change_info.deletions > 0 /\ change_info.insertions = 0 THEN "DELETED"
  ELSE "MODIFIED"

\* lines 29-45: file_changes of a commit, [] if commit.stats raises
FileChangesOfStats(commit) ==
  IF commit.stats_raise THEN <<>>
  ELSE [k \in 1..Len(commit.files) |->
          [type |-> ChangeType(commit.files[k]), file |-> commit.files[k].file]]

\* lines 47-61: commit_info (the fields the model follows)
CommitInfo(commit) ==
  [id |-> commit.hexsha, fileChanges |-> FileChangesOfStats(commit)]

\* what a commit can be: inside the window or older, its stats readable or not
CommitKinds ==
  { [in_window |-> TRUE, stats_raise |-> FALSE,
     files |-> <<Stat("a.py", 3, 0), Stat("b.py", 1, 1)>>],
    [in_window |-> TRUE, stats_raise |-> TRUE, files |-> <<>>],
    [in_window |-> FALSE, stats_raise |-> FALSE,
     files |-> <<Stat("a.py", 0, 2)>>] }

\* repo.iter_commits(): the i-th commit has the i-th hash
IterCommits(kinds) ==
  [i \in 1..Len(kinds) |->
     [hexsha |-> Hashes[i], in_window |-> kinds[i].in_window,
      stats_raise |-> kinds[i].stats_raise, files |-> kinds[i].files]]

\* the state of the other scripts
besidesHistory ==
  <<gitVars, progressVars, structureVars, searchVars, fetch, testing>>

InitHistory ==
  /\ NoGit
  /\ NoProgress
  /\ NoScan
  /\ filtered_json = NoFile
  /\ search = SearchIdle
  /\ fetch = FetchIdle
  /\ commit_history_json \in {NoFile, File(<<Text("[\n"), Text("\n]")>>)}
  /\ writer \in {[pc |-> "open", commits |-> IterCommits(kinds), i |-> 1,
                  first |-> TRUE] :
                 kinds \in SeqsUpTo(CommitKinds, MaxHistory)}
  /\ testing = TestingIdle

\* lines 20-22: the file is opened for writing and "[" is written
OpenArray ==
  /\ writer.pc = "open"
  /\ commit_history_json' = File(<<Text("[\n")>>)
  /\ writer' = [writer EXCEPT !.pc = "commits"]
  /\ UNCHANGED besidesHistory

\* lines 24-27: a commit older than start_date is passed over
SkipOlderCommit ==
  /\ writer.pc = "commits"
  /\ writer.i <= Len(writer.commits)
  /\ ~writer.commits[writer.i].in_window
  /\ writer' = [writer EXCEPT !.i = @ + 1]
  /\ UNCHANGED <<commit_history_json, besidesHistory>>

\* WriteCommit deciding on the separator by the position of the commit in the
\* history instead of the flag `first`
WriteCommitSeparatesByPosition ==
  /\ writer.pc = "commits"
  /\ writer.i <= Len(writer.commits)
  /\ writer.commits[writer.i].in_window
  /\ commit_history_json' =
       File(commit_history_json.data
              \o (IF writer.i > 1 THEN <<Text(",\n")>> ELSE <<>>)
              \o <<Object(CommitInfo(writer.commits[writer.i]))>>)
  /\ writer' = [writer EXCEPT !.i = @ + 1, !.first = FALSE]
  /\ UNCHANGED besidesHistory

\* lines 29-68: a commit of the window is written, after a separator unless it
\* is the first one written
WriteCommit ==
  /\ writer.pc = "commits"
  /\ writer.i <= Len(writer.commits)
  /\ writer.commits[writer.i].in_window
  /\ commit_history_json' =
       File(commit_history_json.data
              \o (IF ~writer.first THEN <<Text(",\n")>> ELSE <<>>)
              \o <<Object(CommitInfo(writer.commits[writer.i]))>>)
  /\ writer' = [writer EXCEPT !.i = @ + 1, !.first = FALSE]
  /\ UNCHANGED besidesHistory

\* lines 70-72: "]" is written and the file closed
CloseArray ==
  /\ writer.pc = "commits"
  /\ writer.i = Len(writer.commits) + 1
  /\ commit_history_json' = File(Append(commit_history_json.data, Text("\n]")))
  /\ writer' = [writer EXCEPT !.pc = "done"]
  /\ UNCHANGED besidesHistory

NextHistory ==
  \/ OpenArray
  \/ SkipOlderCommit
  \/ WriteCommit
  \/ CloseArray

\* one call of extract_commit_history
SpecHistory == InitHistory /\ [][NextHistory]_vars

(***************************************************************************)
(* check_automated_testing.py: analyze_commits(commits, repo,              *)
(* json_file_name) counts, month by month, the commits that touch test     *)
(* files or files containing test keywords.                                *)
(***************************************************************************)
MaxAnalyzed == 3    \* most commits in the input of analyze_commits

\* commit['authorDate']: a timestamp; with a fraction of a second the text
\* does not match '%Y-%m-%dT%H:%M:%SZ'
AuthorDate(year, month, day, fraction) ==
  [year |-> year, month |-> month, day |-> day, fraction |-> fraction]

\* line 52: strptime(...) raises ValueError on text that does not match
StrptimeRaises(authorDate) == authorDate.fraction

\* line 52: strptime(...).strftime('%Y-%m'), the year and the month
MonthKey(authorDate) == <<authorDate.year, authorDate.month>>

\* the paths TEST_FILE_PATTERN or CI_PATTERN is found in, of the paths used
TestPaths == {"tests/test_app.py", ".travis.yml"}

\* lines 26-27: is_test_file
is_test_file(filepath) == filepath \in TestPaths

\* a fileChange with what `git show commit:file` gives for it: content with
\* or without a test keyword, or an error
FileChange(file, show) == [file |-> file, show |-> show]

\* lines 31-36: has_test_keywords, False when git show raises
has_test_keywords(fileChange) == fileChange.show = "keyword"

\* the commits analyze_commits is given
AnalyzedKinds ==
  { [authorDate |-> AuthorDate(2024, 1, 15, FALSE),
     fileChanges |-> <<FileChange("tests/test_app.py", "plain")>>],
    [authorDate |-> AuthorDate(2024, 1, 31, FALSE),
     fileChanges |-> <<FileChange("src/app.py", "keyword"),
                       FileChange("src/util.py", "keyword")>>],
    [authorDate |-> AuthorDate(2023, 1, 15, FALSE),
     fileChanges |-> <<FileChange("tests/test_app.py", "keyword"),
                       FileChange(".travis.yml", "raises")>>],
    [authorDate |-> AuthorDate(2024, 2, 1, FALSE),
     fileChanges |-> <<FileChange("src/app.py", "plain")>>],
    [authorDate |-> AuthorDate(2024, 2, 1, FALSE), fileChanges |-> <<>>],
    [authorDate |-> AuthorDate(2024, 2, 1, TRUE),
     fileChanges |-> <<FileChange("src/app.py", "plain")>>] }

\* commits with their ids
AnalyzedCommits(kinds) ==
  [i \in 1..Len(kinds) |->
     [id |-> Hashes[i], authorDate |-> kinds[i].authorDate,
      fileChanges |-> kinds[i].fileChanges]]

\* lines 43-49: the default entry of results
DefaultMonth ==
  [test_commits |-> 0, total_commits |-> 0, test_files_modified |-> 0,
   keyword_hits |-> 0, keywords_found |-> {}]

\* results[date] of the defaultdict
MonthData(results, date) ==
  IF date \in DOMAIN results THEN results[date] ELSE DefaultMonth

\* Counted with keyword_hits increased inside the loop over the files, once
\* for every file with a keyword
CountedPerFile(data, commit) ==
  LET changes == commit.fileChanges
      test_files == {k \in 1..Len(changes) : is_test_file(changes[k].file)}
      keyword_files == {k \in 1..Len(changes) : has_test_keywords(changes[k])}
  IN [test_commits |->
        data.test_commits
          + (IF test_files # {} \/ keyword_files # {} THEN 1 ELSE 0),
      total_commits |-> data.total_commits + 1,
      test_files_modified |-> data.test_files_modified + Cardinality(test_files),
      keyword_hits |-> data.keyword_hits + Cardinality(keyword_files),
      keywords_found |->
        data.keywords_found \cup {changes[k].file : k \in keyword_files}]

\* lines 53-69: the entry of the month after one more commit
Counted(data, commit) ==
  LET changes == commit.fileChanges
      test_files == {k \in 1..Len(changes) : is_test_file(changes[k].file)}
      keyword_files == {k \in 1..Len(changes) : has_test_keywords(changes[k])}
      is_test_related == test_files # {}
      keyword_hit == keyword_files # {}
  IN [test_commits |->
        data.test_commits + (IF is_test_related \/ keyword_hit THEN 1 ELSE 0),
      total_commits |-> data.total_commits + 1,
      test_files_modified |-> data.test_files_modified + Cardinality(test_files),
      keyword_hits |-> data.keyword_hits + (IF keyword_hit THEN 1 ELSE 0),
      keywords_found |->
        data.keywords_found \cup {changes[k].file : k \in keyword_files}]

\* lines 79-80: round(test_commits / total_commits * 100, 2), in hundredths
\* of a percent, 0 for a month without commits
test_commit_percentage(data) ==
  IF data.total_commits = 0 THEN 0
  ELSE (2 * 10000 * data.test_commits + data.total_commits)
         \div (2 * data.total_commits)

\* lines 78-86: one month of analysis_details
Details(data) ==
  [test_commit_percentage |-> test_commit_percentage(data),
   test_commits |-> data.test_commits,
   total_commits |-> data.total_commits,
   test_files_modified |-> data.test_files_modified,
   keyword_hits |-> data.keyword_hits,
   test_related_files |-> data.keywords_found]

\* the state of the other scripts
besidesTesting ==
  <<gitVars, progressVars, structureVars, searchVars, fetch, historyVars>>

InitTesting ==
  /\ NoGit
  /\ NoProgress
  /\ NoScan
  /\ filtered_json = NoFile
  /\ search = SearchIdle
  /\ fetch = FetchIdle
  /\ commit_history_json = NoFile
  /\ writer = WriterIdle
  /\ testing \in {[pc |-> "commits", commits |-> AnalyzedCommits(kinds),
                   idx |-> 1, results |-> <<>>, analysis_details |-> <<>>] :
                  kinds \in SeqsUpTo(AnalyzedKinds, MaxAnalyzed)}

\* lines 51-69: one commit is counted in its month
CountCommit ==
  /\ testing.pc = "commits"
  /\ testing.idx <= Len(testing.commits)
  /\ LET commit == testing.commits[testing.idx]
         date == MonthKey(commit.authorDate)
     IN /\ ~StrptimeRaises(commit.authorDate)
        /\ testing' =
             [testing EXCEPT
                !.idx = @ + 1,
                !.results =
                  [m \in DOMAIN testing.results \cup {date} |->
                     IF m = date
                     THEN Counted(MonthData(testing.results, date), commit)
                     ELSE testing.results[m]]]
  /\ UNCHANGED besidesTesting

\* line 52: an authorDate that does not match the format ends the call with
\* ValueError; there is no result
DateRaises ==
  /\ testing.pc = "commits"
  /\ testing.idx <= Len(testing.commits)
  /\ StrptimeRaises(testing.commits[testing.idx].authorDate)
  /\ testing' = [testing EXCEPT !.pc = "raised"]
  /\ UNCHANGED besidesTesting

\* lines 77-100: analysis_details is built from results and returned
ReturnDetails ==
  /\ testing.pc = "commits"
  /\ testing.idx = Len(testing.commits) + 1
  /\ testing' =
       [testing EXCEPT
          !.pc = "done",
          !.analysis_details =
            [m \in DOMAIN testing.results |-> Details(testing.results[m])]]
  /\ UNCHANGED besidesTesting

NextTesting ==
  \/ CountCommit
  \/ DateRaises
  \/ ReturnDetails

\* one call of analyze_commits
SpecTesting == InitTesting /\ [][NextTesting]_vars

(***************************************************************************)
(* Properties.  The helpers below are used only to state them.             *)
(***************************************************************************)
RECURSIVE SumOf(_, _)
\* the sum of f[x] over x in S
SumOf(f, S) ==
  IF S = {} THEN 0
  ELSE LET x == CHOOSE y \in S : TRUE IN f[x] + SumOf(f, S \ {x})

AnalyzeOps == Ops \ {"extract_git_history"}

\* the commits of git_data whose date string parses
ValidCommits(git_data) == {i \in 1..Len(git_data) : git_data[i].date.parseable}

\* the UTC calendar day of a parseable date string: the local day, moved by the offset
UtcDay(d) ==
  IF d.hour - d.off < 0 THEN d.day - 1
  ELSE IF d.hour - d.off >= HoursPerDay THEN d.day + 1
  ELSE d.day

MondayOnOrBefore(day) == CHOOSE m \in (day - 6)..day : m % 7 = 0

SundayOnOrAfter(day) == CHOOSE u \in day..(day + 6) : u % 7 = 6

\* C1: whenever analyze_commit_history has written the weekly counts, they sum
\* to the number of commits of the snapshot whose date parses.
C1_WeeklySumIsValidCount ==
  commit_frequency.exists =>
    SumOf(commit_frequency.data, DOMAIN commit_frequency.data)
      = Cardinality(ValidCommits(git_history.data))

\* C1 witness: a written report that counts two commits in one week, one of
\* them in the last hour of the week's Sunday.
C1_Witness ==
  /\ commit_frequency.exists
  /\ Cardinality(ValidCommits(git_history.data)) = 2
  /\ \E k \in DOMAIN commit_frequency.data : commit_frequency.data[k] = 2
  /\ \E i \in 1..Len(git_history.data) : git_history.data[i].date = DSun

C3_EmptyInputEmptyReports ==
  (git_history.exists /\ git_history.data = <<>>) =>
    /\ \A op \in AnalyzeOps : outcome[op] \in {"not_run", "returned"}
    /\ outcome["analyze_commit_history"] = "returned" =>
         (commit_frequency.exists /\ DOMAIN commit_frequency.data = {})
    /\ outcome["analyze_code_churn"] = "returned" =>
         (code_churn.exists /\ DOMAIN code_churn.data = {})
    /\ outcome["analyze_bug_prone_files"] = "returned" =>
         (bug_prone_files.exists /\ DOMAIN bug_prone_files.data = {})
    /\ outcome["analyze_top_contributors"] = "returned" =>
         (top_contributors.exists /\ DOMAIN top_contributors.data = {})

\* the positions <<commit, entry>> of all file-change entries of git_data
AllEntries(git_data) ==
  UNION {{<<i, j>> : j \in 1..Len(git_data[i].file_changes)} : i \in 1..Len(git_data)}

EntryAt(git_data, ij) == git_data[ij[1]].file_changes[ij[2]]

\* the positions of the entries naming path p
EntriesOf(git_data, p) == {ij \in AllEntries(git_data) : EntryAt(git_data, ij).filename = p}

TouchedPaths(git_data) == {EntryAt(git_data, ij).filename : ij \in AllEntries(git_data)}

\* C4: the saved churn mapping has exactly the paths some entry names as keys,
\* and for each of them the sums of lines_added and of lines_deleted over all
\* entries naming it, repeated entries of one commit included.
C4_ChurnIsSumOverEntries ==
  code_churn.exists =>
    /\ DOMAIN code_churn.data = TouchedPaths(git_history.data)
    /\ \A p \in DOMAIN code_churn.data :
         LET es == EntriesOf(git_history.data, p)
         IN /\ code_churn.data[p].added =
                 SumOf([ij \in es |-> EntryAt(git_history.data, ij).lines_added], es)
            /\ code_churn.data[p].deleted =
                 SumOf([ij \in es |-> EntryAt(git_history.data, ij).lines_deleted], es)

\* C4 witness: one commit names X.java twice, another commit names it again, and
\* the saved total of X.java covers all three entries.
C4_Witness ==
  /\ code_churn.exists
  /\ \E i, j \in 1..Len(git_history.data) :
       /\ i # j
       /\ git_history.data[i].file_changes = FCDup
       /\ git_history.data[j].file_changes = FCX
  /\ code_churn.data["X.java"] = [added |-> 5, deleted |-> 2]
  /\ "Y.java" \notin DOMAIN code_churn.data

\* the per-file totals of two churn mappings, summed
SumChurn(c1, c2) ==
  [p \in DOMAIN c1 \cup DOMAIN c2 |->
     LET a == IF p \in DOMAIN c1 THEN c1[p] ELSE NoChurn
         b == IF p \in DOMAIN c2 THEN c2[p] ELSE NoChurn
     IN [added |-> a.added + b.added, deleted |-> a.deleted + b.deleted]]

Reorderings(n) == {f \in [1..n -> 1..n] : \A i, j \in 1..n : f[i] = f[j] => i = j}

RECURSIVE SubList(_, _, _)
\* the commits of git_data at the positions in S from position i on, in order
SubList(git_data, S, i) ==
  IF i > Len(git_data) THEN <<>>
  ELSE (IF i \in S THEN <<git_data[i]>> ELSE <<>>) \o SubList(git_data, S, i + 1)

\* C5: the saved churn mapping equals the churn of every permutation of the
\* commit list, and the summed churn of the two parts of every split of the list.
C5_ChurnOrderAndSplitInvariant ==
  code_churn.exists =>
    LET git_data == git_history.data
        n == Len(git_data)
    IN /\ \A f \in Reorderings(n) :
            FileChurn([i \in 1..n |-> git_data[f[i]]]) = code_churn.data
       /\ \A S \in SUBSET (1..n) :
            SumChurn(FileChurn(SubList(git_data, S, 1)),
                     FileChurn(SubList(git_data, (1..n) \ S, 1))) = code_churn.data

\* C5 witness: two commits change the same file by different amounts, so the
\* running totals differ between the two orders, and the report is written.
C5_Witness ==
  /\ code_churn.exists
  /\ Len(git_history.data) >= 2
  /\ git_history.data[1].file_changes = FCX
  /\ git_history.data[2].file_changes = FCYX
  /\ code_churn.data = [p \in {"X.java", "Y.java"} |->
                          IF p = "X.java" THEN [added |-> 3, deleted |-> 1]
                          ELSE [added |-> 1, deleted |-> 2]]

\* the message has the letters f, i, x in a row, each in either case
MentionsFix(msg) ==
  \E i \in 1..(Len(msg) - 2) :
    /\ msg[i] \in {"f", "F"}
    /\ msg[i + 1] \in {"i", "I"}
    /\ msg[i + 2] \in {"x", "X"}

\* the commits of git_data whose message contains "fix" and that have an entry for p
FixCommitsTouching(git_data, p) ==
  {i \in 1..Len(git_data) :
     /\ MentionsFix(git_data[i].message)
     /\ \E j \in 1..Len(git_data[i].file_changes) :
          git_data[i].file_changes[j].filename = p}

\* C6 (as claimed): the saved bug-mention count of a file is the number of
\* commits whose message contains "fix" and that touched the file.
C6_BugCountIsFixCommitCount ==
  bug_prone_files.exists =>
    \A p \in DOMAIN bug_prone_files.data :
      bug_prone_files.data[p] = Cardinality(FixCommitsTouching(git_history.data, p))

\* C7: a path is a key of the saved bug-mention mapping exactly when some commit
\* whose message contains "fix" has a file-change entry for it.
C7_BugKeysAreFixTouchedPaths ==
  bug_prone_files.exists =>
    /\ \A p \in TouchedPaths(git_history.data) \cup DOMAIN bug_prone_files.data :
         p \in DOMAIN bug_prone_files.data
           <=> FixCommitsTouching(git_history.data, p) # {}
    /\ (\A i \in 1..Len(git_history.data) :
          \/ ~MentionsFix(git_history.data[i].message)
          \/ git_history.data[i].file_changes = <<>>)
         => bug_prone_files.data = EmptyDict

\* C7 witness: an upper-case fix commit without file changes next to a fix
\* commit that touches X.java: X.java is the only key and its count is 1.
C7_Witness ==
  /\ bug_prone_files.exists
  /\ bug_prone_files.data = [p \in {"X.java"} |-> 1]
  /\ \E i, j \in 1..Len(git_history.data) :
       /\ git_history.data[i].message = MsgHotfix
       /\ git_history.data[i].file_changes = <<>>
       /\ git_history.data[j].message = MsgFix
       /\ git_history.data[j].file_changes = FCX

\* C8: the saved contributor count of a name is the number of commits recorded
\* with that name, whatever the email, and the counts sum to the number of commits.
C8_ContributorCountsByName ==
  top_contributors.exists =>
    /\ DOMAIN top_contributors.data =
         {git_history.data[i].author.name : i \in 1..Len(git_history.data)}
    /\ \A a \in DOMAIN top_contributors.data :
         top_contributors.data[a] =
           Cardinality({i \in 1..Len(git_history.data) : git_history.data[i].author.name = a})
    /\ SumOf(top_contributors.data, DOMAIN top_contributors.data) = Len(git_history.data)

\* C8 witness: two commits by authors of one name and different emails share
\* one count of 2.
C8_Witness ==
  /\ top_contributors.exists
  /\ \E i, j \in 1..Len(git_history.data) :
       /\ git_history.data[i].author = Ann1
       /\ git_history.data[j].author = Ann2
  /\ top_contributors.data["ann"] = 2

\* git_data without the commit at position i
Without(git_data, i) == SubList(git_data, (1..Len(git_data)) \ {i}, 1)

\* the value of dict d at key k, 0 when k is no key
CountAt(d, k) == IF k \in DOMAIN d THEN d[k] ELSE 0

\* C9: a commit whose date does not parse leaves the saved weekly counts as they
\* are for the other commits alone, and still adds its line counts to the churn,
\* 1 per file-change entry to the bug mentions when its message contains "fix",
\* and 1 to the contributor count of its author's name.
C9_BadDateOnlyGatesWeekly ==
  \A i \in 1..Len(git_history.data) :
    ~git_history.data[i].date.parseable =>
      LET c == git_history.data[i]
          rest == Without(git_history.data, i)
      IN /\ commit_frequency.exists =>
              /\ commit_frequency.data = ResampleW(DropNa(DateColumn(rest)))
              /\ SumOf(commit_frequency.data, DOMAIN commit_frequency.data)
                   = Cardinality(ValidCommits(rest))
         /\ code_churn.exists =>
              code_churn.data = SumChurn(FileChurn(rest), FileChurn(<<c>>))
         /\ (bug_prone_files.exists /\ MentionsFix(c.message)) =>
              \A p \in TouchedPaths(<<c>>) :
                /\ p \in DOMAIN bug_prone_files.data
                /\ bug_prone_files.data[p] =
                     CountAt(BugFixes(rest), p) + Cardinality(EntriesOf(<<c>>, p))
         /\ top_contributors.exists =>
              /\ c.author.name \in DOMAIN top_contributors.data
              /\ top_contributors.data[c.author.name] =
                   CountAt(AuthorCommits(rest), c.author.name) + 1

\* C9 witness: all four reports are written for a snapshot of a valid commit and
\* a fix commit with an unparseable date that touches X.java and Y.java.
C9_Witness ==
  /\ commit_frequency.exists /\ code_churn.exists
  /\ bug_prone_files.exists /\ top_contributors.exists
  /\ Len(git_history.data) = 2
  /\ git_history.data[1].date = DMon
  /\ git_history.data[1].author.name = "ann"
  /\ git_history.data[2].date = NotADate
  /\ git_history.data[2].message = MsgPrefix
  /\ git_history.data[2].file_changes = FCYX
  /\ commit_frequency.data = [k \in {13} |-> 1]
  /\ code_churn.data["Y.java"] = [added |-> 1, deleted |-> 2]
  /\ bug_prone_files.data["Y.java"] = 1
  /\ top_contributors.data["bob"] = 1

\* the commits extract_git_history parses from a log: one per entry that has a
\* header of five fields or more and at least one further line, in log order
Fetched(log) ==
  LET ok == SelectSeq(log, LAMBDA e : Len(e.header) >= 5 /\ Len(e.body) >= 1)
  IN [i \in 1..Len(ok) |-> CommitEntry(ok[i])]

\* C10: every extraction run writes a snapshot made of the fetched commits whose
\* hash the existing snapshot lacks, in fetch order, followed by the existing
\* records unchanged; from no or an empty snapshot that is the fetched list, and
\* with nothing fetched it is the existing list.
C10_SnapshotIsNewThenExisting ==
  [][LET existing == IF git_history.exists THEN git_history.data ELSE <<>>
         fetched == Fetched(git_history_log'.data)
         new == SelectSeq(fetched, LAMBDA c : c.commit_hash \notin HashesOf(existing))
     IN /\ git_history'.exists
        /\ git_history'.data = new \o existing
        /\ existing = <<>> => git_history'.data = fetched
        /\ fetched = <<>> => git_history'.data = existing]_vars

\* C10 witness: after a run that fetched hash a1 again (with other content) and
\* the new hash a2, the snapshot is the a2 commit followed by the a1 record of
\* the earlier run, unchanged.
C10_Witness ==
  /\ git_history_log.exists
  /\ git_history_log.data = <<EntryAgain, EntryBinary>>
  /\ git_history.exists
  /\ git_history.data = <<CommitEntry(EntryBinary), CommitEntry(EntryFix)>>

\* the list holds no commit_hash twice
DuplicateFree(data) ==
  \A i, j \in 1..Len(data) : data[i].commit_hash = data[j].commit_hash => i = j

\* C11: after any sequence of extraction runs that starts without a snapshot,
\* no two records of the persisted snapshot have the same commit_hash, also
\* when one `git log` output names a hash twice.
C11_SnapshotHashesUnique ==
  git_history.exists => DuplicateFree(git_history.data)

\* the keys every record of the snapshot carries
CommitKeys == {"commit_hash", "author", "date", "message", "file_changes"}

\* the records of git_data that carry every key
WellFormed(git_data) ==
  SelectSeq(git_data, LAMBDA commit : CommitKeys \subseteq DOMAIN commit)

\* the snapshot is a list in which some record lacks a key while the others
\* still hold a commit with file changes
HasMalformedRecord ==
  /\ git_history.exists
  /\ IsJson(git_history)
  /\ Len(WellFormed(git_history.data)) < Len(git_history.data)
  /\ TouchedPaths(WellFormed(git_history.data)) # {}

\* C12: when the snapshot holds a record without its author, date or
\* file_changes, no aggregation raises, and each report that is written is the
\* aggregate of the remaining records.
C12_MalformedRecordSkipped ==
  HasMalformedRecord =>
    LET rest == WellFormed(git_history.data)
    IN /\ \A op \in AnalyzeOps : outcome[op] \in {"not_run", "returned"}
       /\ outcome["analyze_commit_history"] = "returned" =>
            commit_frequency.data = ResampleW(DropNa(DateColumn(rest)))
       /\ outcome["analyze_code_churn"] = "returned" =>
            code_churn.data = FileChurn(rest)
       /\ outcome["analyze_bug_prone_files"] = "returned" =>
            bug_prone_files.data = BugFixes(rest)
       /\ outcome["analyze_top_contributors"] = "returned" =>
            top_contributors.data = AuthorCommits(rest)

\* some printed line carries the value id
Identifies(lines, id) ==
  \E k \in 1..Len(lines) :
    \E a \in 1..Len(lines[k].args) : lines[k].args[a] = id

\* C13: after an extraction run, every entry of the `git log` output that the
\* parsing loop dropped for its shape (a header alone, or a first line with
\* fewer than five fields) is named by a line the run printed.
C13_DroppedEntriesReported ==
  outcome["extract_git_history"] = "returned" =>
    \A i \in 1..Len(git_history_log.data) :
      SkipsEntry(git_history_log.data[i], {}) =>
        Identifies(stdout, git_history_log.data[i].header[1])

\* the outcomes that are an exception leaving the call
Errors == {"FileNotFoundError", "JSONDecodeError", "KeyError"}

\* the functions whose outcome this step set anew
Ended == {op \in Ops : outcome'[op] # outcome[op]}

\* C14 as claimed: a call that finds the snapshot missing or not JSON ends in
\* an error, extract_git_history included.
C14_UnreadableSnapshotFails ==
  [][Unreadable(git_history) => \A op \in Ended : outcome'[op] \in Errors]_vars

\* C14: a call that finds the snapshot not JSON ends in JSONDecodeError and
\* writes no file; a call that finds it missing ends in FileNotFoundError if it
\* is an analysis, while extract_git_history goes on with an empty list and
\* writes the parsed commits as the snapshot.
C14_CorruptFailsMissingStartsEmpty ==
  [][/\ (git_history.exists /\ ~IsJson(git_history)) =>
          /\ \A op \in Ended : outcome'[op] = "JSONDecodeError"
          /\ UNCHANGED <<git_history, git_history_log, reports>>
     /\ ~git_history.exists =>
          /\ \A op \in Ended \cap AnalyzeOps :
               outcome'[op] = "FileNotFoundError"
          /\ UNCHANGED reports
          /\ IF "extract_git_history" \in Ended
             THEN /\ outcome'["extract_git_history"] = "returned"
                  /\ git_history' = File(Fetched(git_history_log'.data))
             ELSE UNCHANGED <<git_history, git_history_log>>]_vars

\* C14 witness: all five functions have failed on a snapshot that is not JSON.
C14_Witness ==
  /\ git_history = CorruptFile
  /\ \A op \in Ops : outcome[op] = "JSONDecodeError"

\* the report file each analysis saves
ReportOf ==
  [analyze_commit_history |-> commit_frequency,
   analyze_code_churn |-> code_churn,
   analyze_bug_prone_files |-> bug_prone_files,
   analyze_top_contributors |-> top_contributors]

\* what each analysis computes from the snapshot
AggregateOf(git_data) ==
  [analyze_commit_history |-> ResampleW(DropNa(DateColumn(git_data))),
   analyze_code_churn |-> FileChurn(git_data),
   analyze_bug_prone_files |-> BugFixes(git_data),
   analyze_top_contributors |-> AuthorCommits(git_data)]

\* C15: an analysis leaves the snapshot and the log alone and changes no report
\* but its own; a report that exists is the aggregate of the snapshot, whatever
\* ran before it, and running its analysis again leaves it as it is.
C15_AnalysesWriteOnlyOwnReport ==
  /\ [](\A op \in AnalyzeOps :
          ReportOf[op].exists =>
            ReportOf[op].data = AggregateOf(git_history.data)[op])
  /\ [][/\ UNCHANGED <<git_history, git_history_log>>
        /\ \A op \in AnalyzeOps :
             ReportOf'[op] # ReportOf[op] =>
               /\ ~ReportOf[op].exists
               /\ outcome'[op] # "not_run"
               /\ Len(stdout') = 1 /\ stdout'[1].text = "Analysis saved"
               /\ \A other \in AnalyzeOps \ {op} :
                    /\ ReportOf'[other] = ReportOf[other]
                    /\ outcome'[other] = outcome[other]]_vars

\* C15 witness: all four analyses have returned on a snapshot of two commits,
\* analyze_code_churn last, and all four reports are there.
C15_Witness ==
  /\ \A op \in AnalyzeOps : ReportOf[op].exists /\ outcome[op] = "returned"
  /\ Len(git_history.data) = 2
  /\ stdout = <<Line("Analysis saved", <<"code_churn.json">>)>>

\* the records a snapshot file holds
Records(f) == IF f.exists THEN {f.data[i] : i \in 1..Len(f.data)} ELSE {}

\* C16: a run that saves when no other run has saved since it loaded the
\* snapshot loses no record; when both runs loaded the snapshot before either
\* saved, the snapshot after both saves is the later saver's list
\* (its new_commits + its existing_data), and a commit that only the earlier
\* saver parsed is not in it.
C16_LaterWriterWins ==
  /\ [][\A r \in Runs :
          (/\ run[r].pc = "parsed"
           /\ run'[r].pc = "done"
           /\ run[r].seen = Len(written)) =>
             Records(git_history) \subseteq Records(git_history')]_vars
  /\ []((Len(written) = 2 /\ \A r \in Runs : run[r].seen = 0) =>
          LET earlier == run[written[1]]
              later == run[written[2]]
          IN /\ git_history.data = later.new_commits \o later.existing_data
             /\ \A i \in 1..Len(earlier.new_commits) :
                  earlier.new_commits[i].commit_hash
                      \notin HashesOf(later.new_commits) =>
                    earlier.new_commits[i] \notin Records(git_history))

\* C16 witness: both runs loaded the one-commit snapshot before either saved,
\* the earlier saver parsed commit a2, the later saver parsed nothing new, and
\* a2 is not in the snapshot.
C16_Witness ==
  /\ Len(written) = 2
  /\ \A r \in Runs : run[r].seen = 0 /\ run[r].existing_data = RaceSnapshot.data
  /\ HashesOf(run[written[1]].new_commits) = {"a2"}
  /\ run[written[2]].new_commits = <<>>
  /\ HashesOf(git_history.data) = {"a1"}

\* the Sundays that close the weeks of the commits with a valid date
WeekEnds(git_data) ==
  {SundayOnOrAfter(UtcDay(git_data[i].date)) : i \in ValidCommits(git_data)}

\* C17 as claimed: the weekly-count mapping has a key only for a week that holds
\* a commit with a valid date, so no key carries the count 0.
C17_NoZeroCounts ==
  commit_frequency.exists =>
    \A k \in DOMAIN commit_frequency.data : commit_frequency.data[k] >= 1

\* C17: the weekly-count mapping has a key for every week from the week of the
\* earliest commit with a valid date to the week of the latest one: the first
\* and the last key count at least one commit, and a week in between without a
\* commit has a key with the count 0.
C17_KeysSpanFirstToLastWeek ==
  (commit_frequency.exists /\ ValidCommits(git_history.data) # {}) =>
    LET ends == WeekEnds(git_history.data)
        keys == DOMAIN commit_frequency.data
    IN /\ keys = {d \in SetMin(ends)..SetMax(ends) : d % 7 = 6}
       /\ \A k \in keys : (commit_frequency.data[k] = 0) <=> (k \notin ends)

\* C17 witness: two commits three weeks apart; the two weeks between them have
\* keys with the count 0.
C17_Witness ==
  /\ commit_frequency.exists
  /\ DOMAIN commit_frequency.data = {13, 20, 27, 34}
  /\ commit_frequency.data[13] = 1
  /\ commit_frequency.data[20] = 0
  /\ commit_frequency.data[27] = 0
  /\ commit_frequency.data[34] = 1

\* the name on the i-th line of repositories_text
NameAt(i) == repositories[i].repo_name

\* the status the progress log holds for a repository
StatusOf(name) == progress_log.data[name].status

\* process_repositories has returned
Returned == repo_index = Len(repositories) + 1

\* C18: while a repository is being extracted its status is "in_progress"; the
\* update that ends its turn sets "completed" if the extraction raised nothing
\* and "error" otherwise; every update leaves the entries of all other
\* repositories as they were; whatever failed, the loop reaches the end of the
\* list, and then every repository of the list is "completed" or "error".
C18_ProgressLogFollowsExtraction ==
  /\ [](repo_phase = "extracting" =>
          /\ progress_log.exists
          /\ StatusOf(NameAt(repo_index)) = "in_progress")
  /\ [][repo_index' # repo_index =>
          /\ repo_phase = "extracting"
          /\ repo_index' = repo_index + 1
          /\ progress_log'.data[NameAt(repo_index)].status =
               IF caught' = "None" THEN "completed" ELSE "error"]_vars
  /\ [][progress_log' # progress_log =>
          /\ progress_log'.exists
          /\ DOMAIN progress_log'.data =
               DOMAIN progress_log.data \cup {NameAt(repo_index)}
          /\ \A n \in DOMAIN progress_log.data \ {NameAt(repo_index)} :
               progress_log'.data[n] = progress_log.data[n]]_vars
  /\ [](Returned =>
          \A i \in 1..Len(repositories) :
            StatusOf(NameAt(i)) \in {"completed", "error"})
  /\ <>Returned

\* C18 witness: the first repository failed, the second one completed after
\* it, and the entry an earlier run left for a third repository is as it was.
C18_Witness ==
  /\ Returned
  /\ Len(repositories) = 2
  /\ StatusOf(NameAt(1)) = "error"
  /\ StatusOf(NameAt(2)) = "completed"
  /\ "mall" \in DOMAIN progress_log.data
  /\ progress_log.data["mall"] = LogEntryOf("in_progress", <<"earlier run">>)

\* the entries the output file holds (none if it is missing or not JSON)
EntriesOnDisk(f) == IF f.exists /\ "data" \in DOMAIN f THEN f.data ELSE <<>>

\* the names of the entries on disk
NamesOnDisk(f) == {EntriesOnDisk(f)[i].name : i \in 1..Len(EntriesOnDisk(f))}

\* the loop is at a row
InLoop == scan.pc = "rows" /\ scan.row <= Len(csv)

\* what get_repo_structure gave for the row this step processed
LastResult == scan'.results[Len(scan'.results)]

\* C19: no two entries of the output file have the same name; a row whose Name
\* the output file holds is skipped, without a clone and without a write; the
\* file changes only by a row whose clone succeeded, which appends that row's
\* entry; a row whose clone failed is in neither processed_repos nor the file,
\* so a later row or run with that Name clones again.
C19_NamesUniqueFailedRowsRetried ==
  /\ [](\A i, j \in 1..Len(EntriesOnDisk(output_json)) :
          EntriesOnDisk(output_json)[i].name = EntriesOnDisk(output_json)[j].name
            => i = j)
  /\ [][(InLoop /\ csv[scan.row].Name \in NamesOnDisk(output_json)) =>
          /\ scan'.results = Append(scan.results, "skipped")
          /\ output_json' = output_json]_vars
  /\ [][output_json' # output_json =>
          /\ InLoop
          /\ LastResult \in Structures
          /\ output_json' =
               File(Append(EntriesOnDisk(output_json),
                           [name |-> csv[scan.row].Name,
                            owner |-> csv[scan.row].Owner,
                            url |-> csv[scan.row].URL,
                            directory_structure |-> LastResult]))]_vars
  /\ [][(InLoop /\ scan'.row = scan.row + 1 /\ LastResult = "None") =>
          /\ csv[scan.row].Name \notin scan'.processed_repos
          /\ csv[scan.row].Name \notin NamesOnDisk(output_json')]_vars

\* C19 witness: the clone of the first guava row failed, the second row names
\* guava again and was cloned, and the file holds the one guava entry.
C19_Witness ==
  /\ Len(csv) = 2
  /\ csv[1].Name = "guava" /\ csv[2].Name = "guava"
  /\ Len(scan.results) = 2
  /\ scan.results[1] = "None"
  /\ scan.results[2] \in Structures
  /\ NamesOnDisk(output_json) = {"guava"}
  /\ EntriesOnDisk(output_json)[1].owner = csv[2].Owner

RECURSIVE ClonedSoFar(_, _)
\* the entries of the rows whose clone succeeded, in CSV order
ClonedSoFar(rows, results) ==
  IF results = <<>> THEN <<>>
  ELSE LET n == Len(results)
           before == ClonedSoFar(rows, SubSeq(results, 1, n - 1))
       IN IF results[n] \in Structures
          THEN Append(before, [name |-> rows[n].Name, owner |-> rows[n].Owner,
                               url |-> rows[n].URL,
                               directory_structure |-> results[n]])
          ELSE before

\* xs is the beginning of ys
IsPrefix(xs, ys) == Len(xs) <= Len(ys) /\ xs = SubSeq(ys, 1, Len(xs))

\* C20: from the start of a call on, after every row the entries on disk are
\* the entries loaded at the start followed by the entries of the rows cloned
\* so far, in CSV order; no step removes or changes an entry on disk, a failed
\* row included; and an output file that is not JSON is loaded as the empty
\* list, stays as it is until a clone succeeds and is then overwritten by a
\* list of that one entry.
C20_OutputSavedIncrementally ==
  /\ [](scan # Idle =>
          EntriesOnDisk(output_json)
            = scan.loaded \o ClonedSoFar(csv, scan.results))
  /\ [][IsPrefix(EntriesOnDisk(output_json), EntriesOnDisk(output_json'))]_vars
  /\ []((output_json.exists /\ "data" \notin DOMAIN output_json /\ scan # Idle) =>
          scan.loaded = <<>> /\ ClonedSoFar(csv, scan.results) = <<>>)
  /\ [][(output_json.exists /\ "data" \notin DOMAIN output_json
           /\ output_json' # output_json) =>
          /\ LastResult \in Structures
          /\ output_json' = File(ClonedSoFar(csv', scan'.results))
          /\ Len(output_json'.data) = 1]_vars

\* C20 witness: the run loaded the jadx entry of an earlier run, cloned guava
\* and then failed to clone RxJava; the file holds jadx and then guava.
C20_Witness ==
  /\ Len(scan.loaded) = 1
  /\ scan.loaded[1].name = "jadx"
  /\ Len(scan.results) = 2
  /\ scan.results[1] \in Structures
  /\ scan.results[2] = "None"
  /\ csv[2].Name = "RxJava"
  /\ Len(EntriesOnDisk(output_json)) = 2
  /\ EntriesOnDisk(output_json)[1] = scan.loaded[1]
  /\ EntriesOnDisk(output_json)[2].name = "guava"

\* the number of directory and file names a matched structure keeps
NamesKept(structure) ==
  SumOf([d \in 1..Len(structure) |->
           Len(structure[d].directories) + Len(structure[d].files)],
        1..Len(structure))

\* the entries of a list
Range(xs) == {xs[i] : i \in 1..Len(xs)}

\* some name of the tree contains some query, case aside
AnyNameMatches(tree, query_items) ==
  \E d \in 1..Len(tree) :
    \E name \in Range(tree[d].directories) \cup Range(tree[d].files) :
      \E query \in Range(query_items) : Contains(Lower(name), Lower(query))

\* the repositories search_json has finished with
Finished == SubSeq(search.repositories, 1, search.repo - 1)

\* C21: while a repository is scanned, the names kept are as many as the
\* matched queries, which are among query_items; once every query is matched
\* and the check of line 52 has run, no further item of the repository is
\* scanned; and the kept repositories are, in order, the finished ones with a
\* name that matches a query.
C21_EachQueryOnceThenScanStops ==
  /\ [](/\ NamesKept(search.matched_directory_structure)
            = Cardinality(search.matched_queries)
        /\ search.matched_queries \subseteq Range(search.query_items))
  /\ [](\A k \in 1..Len(search.matched_repositories) :
          LET kept == search.matched_repositories[k]
          IN /\ NamesKept(kept.directory_structure)
                  = Cardinality(kept.query_items_matched)
             /\ NamesKept(kept.directory_structure) >= 1)
  /\ []([k \in 1..Len(search.matched_repositories) |->
           search.matched_repositories[k].name]
        = [k \in 1..Len(SelectSeq(Finished, LAMBDA r :
                          AnyNameMatches(r.directory_structure, search.query_items)))
             |-> SelectSeq(Finished, LAMBDA r :
                   AnyNameMatches(r.directory_structure, search.query_items))[k].name])
  /\ [](filtered_json.exists => filtered_json.data = search.matched_repositories)
  /\ [][(/\ search.repo <= Len(search.repositories)
         /\ search.dir > 1
         /\ Range(search.query_items) \subseteq search.matched_queries) =>
          ~(search'.repo = search.repo /\ search'.dir = search.dir + 1)]_vars

\* the pages whose items the call has collected
PagesCollected == {fetch.all_repositories[i].page : i \in 1..Len(fetch.all_repositories)}

\* C22: the first request is for page 1; a request follows a 200 response with
\* items for the next page and a rate-limit response for the same page, and
\* nothing follows another response; the collected items are those of pages
\* 1..current_page - 1, each page once and in order, never more than max_pages
\* pages; the call has returned after an empty page or an error status; and
\* with the rate-limit responses bounded it ends.
C22_PagesInOrderAndTermination ==
  /\ [](\A i \in 1..Len(fetch.exchange) :
          /\ i = 1 => fetch.exchange[i].page = 1
          /\ i > 1 =>
               \/ /\ fetch.exchange[i - 1].response = "items"
                  /\ fetch.exchange[i].page = fetch.exchange[i - 1].page + 1
               \/ /\ fetch.exchange[i - 1].response = "rate_limit"
                  /\ fetch.exchange[i].page = fetch.exchange[i - 1].page)
  /\ [](/\ fetch.current_page = 1 + CountOf(fetch.exchange, "items")
        /\ PagesCollected = 1..(fetch.current_page - 1)
        /\ \A i, j \in 1..Len(fetch.all_repositories) :
             i < j =>
               \/ fetch.all_repositories[i].page < fetch.all_repositories[j].page
               \/ /\ fetch.all_repositories[i].page = fetch.all_repositories[j].page
                  /\ fetch.all_repositories[i].rank < fetch.all_repositories[j].rank
        /\ Cardinality(PagesCollected) <= fetch.max_pages)
  /\ []((fetch.exchange # <<>>
          /\ fetch.exchange[Len(fetch.exchange)].response \in {"empty", "error"})
        => fetch.pc = "returned")
  /\ [](fetch.pc = "returned" =>
          \/ fetch.current_page > fetch.max_pages
          \/ fetch.exchange[Len(fetch.exchange)].response \in {"empty", "error"})
  /\ <>(fetch.pc # "fetching")

\* C22 witness: page 1 was collected, page 2 was requested three times (two
\* rate-limit responses, then its items), and the call returned with
\* max_pages = 2 pages.
C22_Witness ==
  /\ fetch.pc = "returned"
  /\ fetch.max_pages = 2
  /\ [i \in 1..Len(fetch.exchange) |-> fetch.exchange[i].page] = <<1, 2, 2, 2>>
  /\ [i \in 1..Len(fetch.exchange) |-> fetch.exchange[i].response]
       = <<"items", "rate_limit", "rate_limit", "items">>
  /\ PagesCollected = {1, 2}

\* the commits of the time window, in the order of the history
InWindow(commits) == SelectSeq(commits, LAMBDA c : c.in_window)

\* the objects with one separator between consecutive ones
Separated(objects) ==
  [k \in 1..(IF objects = <<>> THEN 0 ELSE 2 * Len(objects) - 1) |->
     IF k % 2 = 1 THEN Object(objects[(k + 1) \div 2]) ELSE Text(",\n")]

\* C23: when extract_commit_history has closed the file, the file is "["
\* followed by the objects of the commits inside the time window, in order and
\* with exactly one separator between consecutive objects, and then "]": no
\* separator before the first object or after the last, and the empty array
\* when no commit lies inside the window, wherever older commits were skipped.
C23_ArrayOfWindowCommits ==
  writer.pc = "done" =>
    LET objects == [k \in 1..Len(InWindow(writer.commits)) |->
                      CommitInfo(InWindow(writer.commits)[k])]
        data == commit_history_json.data
    IN /\ commit_history_json.exists
       /\ data = <<Text("[\n")>> \o Separated(objects) \o <<Text("\n]")>>
       /\ objects = <<>> => data = <<Text("[\n"), Text("\n]")>>
       /\ objects # <<>> =>
            /\ data[2].text = "object"
            /\ data[Len(data) - 1].text = "object"
            /\ Cardinality({k \in 1..Len(data) : data[k] = Text(",\n")})
                 = Len(objects) - 1

\* two commits of the window are written around an older one that is skipped
C23_Witness ==
  /\ writer.pc = "done"
  /\ Len(writer.commits) = 3
  /\ writer.commits[1].in_window
  /\ ~writer.commits[2].in_window
  /\ writer.commits[3].in_window
  /\ Len(commit_history_json.data) = 5

RECURSIVE TotalOver(_, _)
\* the sum of total_commits over the months of a result
TotalOver(details, months) ==
  IF months = {} THEN 0
  ELSE LET m == CHOOSE x \in months : TRUE
       IN details[m].total_commits + TotalOver(details, months \ {m})

\* C24: in the result analyze_commits returns, every month has
\* keyword_hits <= test_commits <= total_commits and total_commits >= 1, its
\* test_commit_percentage (in hundredths of a percent) lies between 0 and
\* 100 percent, and the total_commits of all months sum to the number of
\* input commits.
C24_MonthlyCountsConsistent ==
  testing.pc = "done" =>
    LET details == testing.analysis_details
    IN /\ \A m \in DOMAIN details :
            /\ 0 <= details[m].keyword_hits
            /\ details[m].keyword_hits <= details[m].test_commits
            /\ details[m].test_commits <= details[m].total_commits
            /\ details[m].total_commits >= 1
            /\ details[m].test_commit_percentage \in 0..10000
       /\ TotalOver(details, DOMAIN details) = Len(testing.commits)

\* a result of two months: one with a keyword commit and a commit that only
\* touches a test file, one with a commit touching neither
C24_Witness ==
  /\ testing.pc = "done"
  /\ Cardinality(DOMAIN testing.analysis_details) = 2
  /\ \E m \in DOMAIN testing.analysis_details :
       /\ testing.analysis_details[m].keyword_hits = 1
       /\ testing.analysis_details[m].test_commits = 2
       /\ testing.analysis_details[m].test_commit_percentage = 10000
  /\ \E m \in DOMAIN testing.analysis_details :
       /\ testing.analysis_details[m].test_commits = 0
       /\ testing.analysis_details[m].total_commits = 1
       /\ testing.analysis_details[m].test_commit_percentage = 0

====
